---- MODULE Spec2Model ----
(***************************************************************************)
(* Persistence core of Synnia (src-tauri): the document backend            *)
(* (services/io.rs), the history ledger (services/history.rs), the asset   *)
(* commands (commands/history.rs) and the schema they run against          *)
(* (services/database.rs).                                                 *)
(*                                                                         *)
(* Three specifications share the variables:                               *)
(*   Spec        the document backend: save_project, save_project_autosave *)
(*               and load_project on one project root, one file-system     *)
(*               step at a time, with I/O failures and process death.      *)
(*   SpecLedger  create_snapshot_if_changed on the asset_history table.    *)
(*   SpecAssets  the history commands on the assets and asset_history      *)
(*               tables.                                                   *)
(***************************************************************************)
EXTENDS Integers, Sequences, FiniteSets, TLC

VARIABLES
    (* ---- document backend (services/io.rs) ---- *)
    rootExists,     \* project_root.exists()
    fs,             \* the three store-private files of the project root
    savePc,         \* position of the running save_project call
    saveArg,        \* the project the running / last save_project was given
    saveResult,     \* outcome of the last save_project call
    canonAtStart,   \* content of synnia.json when the last save_project began
    autoPc,         \* position of the running save_project_autosave call
    autoArg,        \* the project the running autosave was given
    autoResult,     \* outcome of the last save_project_autosave call
    loaded,         \* result of the last load_project call
    (* ---- transactional store (services/database.rs) ---- *)
    assets,         \* the assets table: asset id -> current row
    asset_history,  \* the asset_history table: a set of rows
    seq,            \* sqlite_sequence of asset_history (AUTOINCREMENT)
    now,            \* chrono::Utc::now().timestamp_millis()
    issued,         \* per asset: the highest content number snapshotted so far
    onlyFresh,      \* per asset: every snapshot call so far carried a new content
    calls,          \* number of calls made on the store
    call,           \* the last call on the store and what it returned
    (* ---- transactional project store (services/io_sqlite.rs) ---- *)
    store,          \* synnia.db as committed: the file and its project tables
    txn,            \* the tables as the connection inside BEGIN..COMMIT sees them
    sqlPc,          \* position of the running save_project_sqlite call
    sqlArg,         \* the project the running / last save_project_sqlite was given
    last,           \* the last operation on the two roots and its two results
    (* ---- calls of io.rs running at the same time ---- *)
    overlap,        \* the latest save_project and save_project_autosave calls
                    \* have been running at the same time
    (* ---- command layer (commands/project.rs, commands/history.rs) ---- *)
    current_project_path,   \* AppState.current_project_path
    dirs,           \* the directories projects live in, as the disk holds them
    cmd,            \* the last command: its name, path argument and outcome
    recent_projects \* GlobalConfig.recent_projects as config.json holds it

docVars == <<rootExists, fs, savePc, saveArg, saveResult, canonAtStart,
             autoPc, autoArg, autoResult, loaded>>

dbVars == <<assets, asset_history, seq, now, issued, onlyFresh, calls, call>>

storeVars == <<store, txn, sqlPc, sqlArg, last>>

concVars == <<overlap>>

cmdVars == <<current_project_path, dirs, cmd, recent_projects>>

vars == <<docVars, dbVars, storeVars, concVars, cmdVars>>

(***************************************************************************)
(* Paths and directories of the command layer.  A path argument is a       *)
(* directory together with the spelling the caller used for it.            *)
(***************************************************************************)
Dirs == {1, 2}
Spellings == {0, 1}

PathStrings == {[dir |-> d, spelling |-> k] : d \in Dirs, k \in Spellings}

\* Mutex::new(None) (lib.rs:39).
NoPath == [dir |-> 0, spelling |-> 0]

\* A directory on disk: whether it exists, holds synnia.json, holds synnia.db.
Absent == [exists |-> FALSE, json |-> FALSE, db |-> FALSE]

NoCmd == [op |-> "none", path |-> NoPath, ok |-> FALSE, err |-> "", wrote |-> 0]

\* The outcome of command op called with path: `wrote` is the directory it
\* created or changed a file in, 0 when it wrote nothing.
Outcome(op, path, ok, err, wrote) ==
    [op |-> op, path |-> path, ok |-> ok, err |-> err, wrote |-> wrote]

\* The length GlobalConfig::add_recent cuts the list to (config.rs:69-71).
MAX_RECENT == 10

\* GlobalConfig::add_recent (config.rs:58-72) on the list of entries, an
\* entry being taken as its path: retain the other paths, insert at the
\* front, truncate.  (An insert without the retain would keep the old entry.)
add_recent_keeping(list, path) ==
    LET added == <<path>> \o list
    IN  IF Len(added) > MAX_RECENT THEN SubSeq(added, 1, MAX_RECENT) ELSE added
add_recent(list, path) ==
    LET IsOther(p) == p # path
        added == <<path>> \o SelectSeq(list, IsOther)
    IN  IF Len(added) > MAX_RECENT THEN SubSeq(added, 1, MAX_RECENT) ELSE added

InitCmdIdle ==
    /\ current_project_path = NoPath
    /\ dirs = [d \in Dirs |-> Absent]
    /\ cmd = NoCmd
    /\ recent_projects = <<>>

\* The application starts with no project open; the disk holds any projects
\* and other directories earlier sessions left.
InitCmd ==
    /\ current_project_path = NoPath
    /\ dirs \in [Dirs -> {Absent} \cup
                   {[exists |-> TRUE, json |-> j, db |-> b] : j, b \in BOOLEAN}]
    /\ cmd = NoCmd
    /\ recent_projects = <<>>

(***************************************************************************)
(* Bounds                                                                  *)
(***************************************************************************)
MaxProject == 2     \* distinct project values a caller may pass
DocLen == 2         \* write() calls write_all needs for one document
MaxCalls == 3       \* calls made in one run of a call-counting specification
MaxValue == 3       \* distinct asset values a caller may pass
MaxEntries == 3     \* entries of the ledger a listing starts from
MaxPaths == 12      \* distinct project paths passed to add_recent

Projects == 1..MaxProject

(***************************************************************************)
(* Files of the project root                                               *)
(***************************************************************************)
file_path == "synnia.json"
\* Writing in place: the document's own path instead of a temp file.
tmp_path_direct == "synnia.json"
tmp_path == "synnia.json.tmp"
autosave_path == "synnia.json.autosave"

Paths == {"synnia.json", "synnia.json.tmp", "synnia.json.autosave"}

\* An absent file.
NoFile == [doc |-> 0, fmt |-> "absent", len |-> 0]

\* A file holds the first `len` write() chunks of the serialization `fmt`
\* ("pretty" or "compact") of project `doc`; it is a complete document when
\* len = DocLen.

\* serde_json::to_string_pretty / serde_json::to_string
to_string_pretty(p) == [doc |-> p, fmt |-> "pretty", len |-> DocLen]
to_string(p) == [doc |-> p, fmt |-> "compact", len |-> DocLen]

Truncated(c) == [c EXCEPT !.len = 0]

Complete(f) == f # NoFile /\ f.len = DocLen

\* serde_json::from_str over fs::read_to_string: either serialization of a
\* project parses back to it; a truncated or empty document is a parse error.
from_str(f) ==
    IF f.len = DocLen THEN [ok |-> TRUE, err |-> "", project |-> f.doc]
    ELSE [ok |-> FALSE, err |-> "Serialization", project |-> 0]

NoResult == [ok |-> FALSE, err |-> "none", project |-> 0, from |-> ""]

\* load_project: prefer the autosave artifact when it exists.
path_to_load(files) ==
    IF files[autosave_path] # NoFile THEN autosave_path ELSE file_path

load_result(files) ==
    IF files[path_to_load(files)] = NoFile
    THEN [ok |-> FALSE, err |-> "NotFound", project |-> 0,
          from |-> path_to_load(files)]
    ELSE from_str(files[path_to_load(files)]) @@ [from |-> path_to_load(files)]

(***************************************************************************)
(* Initial state of the document backend: a project root that does not     *)
(* exist, or one that holds any combination of a complete canonical        *)
(* document and a complete autosave artifact left by earlier sessions.     *)
(***************************************************************************)
InitDoc ==
    /\ rootExists \in BOOLEAN
    /\ \E m \in {NoFile} \cup {to_string_pretty(p) : p \in Projects},
          a \in {NoFile} \cup {to_string(p) : p \in Projects} :
         fs = [x \in Paths |->
                 IF ~rootExists THEN NoFile
                 ELSE IF x = file_path THEN m
                 ELSE IF x = autosave_path THEN a
                 ELSE NoFile]
    /\ savePc = "idle"
    /\ saveArg = 0
    /\ saveResult = "none"
    /\ canonAtStart = NoFile
    /\ autoPc = "idle"
    /\ autoArg = 0
    /\ autoResult = "none"
    /\ loaded = NoResult

Idle == savePc = "idle" /\ autoPc = "idle"

autoUnchanged == UNCHANGED <<autoPc, autoArg, autoResult>>
saveUnchanged == UNCHANGED <<savePc, saveArg, saveResult, canonAtStart>>

(***************************************************************************)
(* save_project (io.rs:18-45), one file-system call per step.              *)
(***************************************************************************)
\* io.rs:18-27: the call begins; a missing root is an Io error.
save_project_begin(p) ==
    /\ Idle
    /\ saveArg' = p
    /\ canonAtStart' = fs[file_path]
    /\ loaded' = NoResult
    /\ IF rootExists
       THEN savePc' = "create" /\ saveResult' = "running"
       ELSE savePc' = "idle" /\ saveResult' = "err"
    /\ UNCHANGED <<rootExists, fs>>
    /\ autoUnchanged

\* io.rs:31: fs::File::create(&tmp_path) truncates or creates the temp file.
save_project_create ==
    /\ savePc = "create"
    /\ fs' = [fs EXCEPT ![tmp_path] = Truncated(to_string_pretty(saveArg))]
    /\ savePc' = "write"
    /\ UNCHANGED <<rootExists, saveArg, saveResult, canonAtStart, loaded>>
    /\ autoUnchanged

\* io.rs:32: file.write_all, one write() at a time.
save_project_write ==
    /\ savePc = "write"
    /\ fs[tmp_path] # NoFile
    /\ fs[tmp_path].len < DocLen
    /\ fs' = [fs EXCEPT ![tmp_path].len = @ + 1]
    /\ savePc' = IF fs[tmp_path].len + 1 = DocLen THEN "sync" ELSE "write"
    /\ UNCHANGED <<rootExists, saveArg, saveResult, canonAtStart, loaded>>
    /\ autoUnchanged

\* io.rs:33: file.sync_all.
save_project_sync ==
    /\ savePc = "sync"
    /\ savePc' = "rename"
    /\ UNCHANGED <<rootExists, fs, saveArg, saveResult, canonAtStart, loaded>>
    /\ autoUnchanged

\* io.rs:36: fs::rename(&tmp_path, &file_path) replaces the canonical file.
save_project_rename ==
    /\ savePc = "rename"
    /\ fs[tmp_path] # NoFile
    /\ fs' = IF tmp_path = file_path THEN fs
             ELSE [fs EXCEPT ![file_path] = fs[tmp_path], ![tmp_path] = NoFile]
    /\ savePc' = "cleanup"
    /\ UNCHANGED <<rootExists, saveArg, saveResult, canonAtStart, loaded>>
    /\ autoUnchanged

\* io.rs:39-44: remove the autosave artifact when it exists; the result of
\* fs::remove_file is discarded (let _ =), so a failed removal still ends Ok.
save_project_cleanup ==
    /\ savePc = "cleanup"
    /\ \E removed \in BOOLEAN :
         fs' = IF fs[autosave_path] # NoFile /\ removed
               THEN [fs EXCEPT ![autosave_path] = NoFile]
               ELSE fs
    /\ savePc' = "idle"
    /\ saveResult' = "ok"
    /\ UNCHANGED <<rootExists, saveArg, canonAtStart, loaded>>
    /\ autoUnchanged

\* The `?` of io.rs:31, 32, 33 and 36: the file-system call at the current
\* position fails and save_project returns the error; nothing is undone.
save_project_fail ==
    /\ savePc \in {"create", "write", "sync", "rename"}
    /\ savePc' = "idle"
    /\ saveResult' = "err"
    /\ UNCHANGED <<rootExists, fs, saveArg, canonAtStart, loaded>>
    /\ autoUnchanged

(***************************************************************************)
(* save_project_autosave (io.rs:7-16): fs::write creates or truncates the  *)
(* autosave artifact and writes the compact serialization into it.         *)
(***************************************************************************)
save_project_autosave_begin(p) ==
    /\ Idle
    /\ autoArg' = p
    /\ loaded' = NoResult
    /\ saveResult' = "none"
    /\ IF rootExists
       THEN autoPc' = "create" /\ autoResult' = "running"
       ELSE autoPc' = "idle" /\ autoResult' = "err"
    /\ UNCHANGED <<rootExists, fs, savePc, saveArg, canonAtStart>>

save_project_autosave_create ==
    /\ autoPc = "create"
    /\ fs' = [fs EXCEPT ![autosave_path] = Truncated(to_string(autoArg))]
    /\ autoPc' = "write"
    /\ UNCHANGED <<rootExists, autoArg, autoResult, loaded>>
    /\ saveUnchanged

\* The write() calls of fs::write.  When the artifact was removed after
\* fs::write opened it, the remaining writes go to the unlinked file: they
\* succeed and leave no file at the path.
save_project_autosave_write ==
    /\ autoPc = "write"
    /\ IF fs[autosave_path] = NoFile
       THEN /\ fs' = fs
            /\ autoPc' = "idle" /\ autoResult' = "ok"
       ELSE /\ fs' = [fs EXCEPT ![autosave_path].len = @ + 1]
            /\ IF fs[autosave_path].len + 1 = DocLen
               THEN autoPc' = "idle" /\ autoResult' = "ok"
               ELSE autoPc' = "write" /\ autoResult' = autoResult
    /\ UNCHANGED <<rootExists, autoArg, loaded>>
    /\ saveUnchanged

\* The `?` of io.rs:14: the write fails and the error is returned.
save_project_autosave_fail ==
    /\ autoPc \in {"create", "write"}
    /\ autoPc' = "idle"
    /\ autoResult' = "err"
    /\ UNCHANGED <<rootExists, fs, autoArg, loaded>>
    /\ saveUnchanged

(***************************************************************************)
(* load_project (io.rs:47-68).                                             *)
(***************************************************************************)
load_project ==
    /\ Idle
    /\ loaded' = load_result(fs)
    /\ UNCHANGED <<rootExists, fs>>
    /\ saveUnchanged
    /\ autoUnchanged

(***************************************************************************)
(* The process dies while a call is running: the call never returns, the   *)
(* files stay as the completed file-system calls left them.                *)
(***************************************************************************)
Crash ==
    /\ ~Idle
    /\ savePc' = "idle"
    /\ autoPc' = "idle"
    /\ saveResult' = IF savePc # "idle" THEN "crashed" ELSE saveResult
    /\ autoResult' = IF autoPc # "idle" THEN "crashed" ELSE autoResult
    /\ UNCHANGED <<rootExists, fs, saveArg, canonAtStart, autoArg, loaded>>

(***************************************************************************)
(* The same calls made from two threads: a foreground save_project and a   *)
(* background save_project_autosave may each begin while the other is      *)
(* running; their file-system calls interleave in any order.               *)
(***************************************************************************)
save_project_concurrent(p) ==
    /\ savePc = "idle"
    /\ saveArg' = p
    /\ canonAtStart' = fs[file_path]
    /\ loaded' = NoResult
    /\ overlap' = (autoPc # "idle")
    /\ IF rootExists
       THEN savePc' = "create" /\ saveResult' = "running"
       ELSE savePc' = "idle" /\ saveResult' = "err"
    /\ UNCHANGED <<rootExists, fs>>
    /\ autoUnchanged

save_project_autosave_concurrent(p) ==
    /\ autoPc = "idle"
    /\ autoArg' = p
    /\ loaded' = NoResult
    /\ overlap' = (savePc # "idle")
    /\ IF rootExists
       THEN autoPc' = "create" /\ autoResult' = "running"
       ELSE autoPc' = "idle" /\ autoResult' = "err"
    /\ UNCHANGED <<rootExists, fs>>
    /\ saveUnchanged

NextConcurrent ==
    \/ \E p \in Projects : save_project_concurrent(p) /\ UNCHANGED <<dbVars, storeVars, cmdVars>>
    \/ \E p \in Projects :
         save_project_autosave_concurrent(p) /\ UNCHANGED <<dbVars, storeVars, cmdVars>>
    \/ save_project_create /\ UNCHANGED <<dbVars, storeVars, concVars, cmdVars>>
    \/ save_project_write /\ UNCHANGED <<dbVars, storeVars, concVars, cmdVars>>
    \/ save_project_sync /\ UNCHANGED <<dbVars, storeVars, concVars, cmdVars>>
    \/ save_project_rename /\ UNCHANGED <<dbVars, storeVars, concVars, cmdVars>>
    \/ save_project_cleanup /\ UNCHANGED <<dbVars, storeVars, concVars, cmdVars>>
    \/ save_project_fail /\ UNCHANGED <<dbVars, storeVars, concVars, cmdVars>>
    \/ save_project_autosave_create /\ UNCHANGED <<dbVars, storeVars, concVars, cmdVars>>
    \/ save_project_autosave_write /\ UNCHANGED <<dbVars, storeVars, concVars, cmdVars>>
    \/ save_project_autosave_fail /\ UNCHANGED <<dbVars, storeVars, concVars, cmdVars>>
    \/ load_project /\ UNCHANGED <<dbVars, storeVars, concVars, cmdVars>>
    \/ Crash /\ UNCHANGED <<dbVars, storeVars, concVars, cmdVars>>

NextDoc ==
    \/ \E p \in Projects : save_project_begin(p) /\ UNCHANGED <<dbVars, storeVars, concVars, cmdVars>>
    \/ save_project_create /\ UNCHANGED <<dbVars, storeVars, concVars, cmdVars>>
    \/ save_project_write /\ UNCHANGED <<dbVars, storeVars, concVars, cmdVars>>
    \/ save_project_sync /\ UNCHANGED <<dbVars, storeVars, concVars, cmdVars>>
    \/ save_project_rename /\ UNCHANGED <<dbVars, storeVars, concVars, cmdVars>>
    \/ save_project_cleanup /\ UNCHANGED <<dbVars, storeVars, concVars, cmdVars>>
    \/ save_project_fail /\ UNCHANGED <<dbVars, storeVars, concVars, cmdVars>>
    \/ \E p \in Projects : save_project_autosave_begin(p) /\ UNCHANGED <<dbVars, storeVars, concVars, cmdVars>>
    \/ save_project_autosave_create /\ UNCHANGED <<dbVars, storeVars, concVars, cmdVars>>
    \/ save_project_autosave_write /\ UNCHANGED <<dbVars, storeVars, concVars, cmdVars>>
    \/ save_project_autosave_fail /\ UNCHANGED <<dbVars, storeVars, concVars, cmdVars>>
    \/ load_project /\ UNCHANGED <<dbVars, storeVars, concVars, cmdVars>>
    \/ Crash /\ UNCHANGED <<dbVars, storeVars, concVars, cmdVars>>

(***************************************************************************)
(* The transactional store: schema (services/database.rs SCHEMA_SQL).      *)
(***************************************************************************)
AssetIds == {1, 2}
Values == 1..MaxValue

\* Columns of the assets table (database.rs:119-128).
AssetsColumns ==
    {"id", "value_type", "value_hash", "value_json", "value_meta_json",
     "config_json", "sys_json", "updated_at"}

\* Columns of the asset_history table (database.rs:131-137).
HistoryColumns == {"id", "asset_id", "content_hash", "content_json", "created_at"}

\* A statement compiles only when every column it names is a column of the
\* table; otherwise prepare/execute returns "no such column".
Prepares(columns, table) == columns \subseteq table

\* Maximum number of history entries to keep per asset (history.rs:12).
MAX_HISTORY_PER_ASSET == 50

\* serde_json::to_string(&asset.value) and its inverse serde_json::from_str.
value_to_string(v) == [json |-> v]
value_from_str(j) == j.json

\* hash::compute_content_hash: SHA-256 of the text, taken as collision free.
compute_content_hash(j) == [sha256 |-> j]

\* A row of the assets table; of its columns only id, value_hash, value_json
\* and updated_at carry behaviour here.
AssetRow(a, v, t) ==
    [id |-> a,
     value_hash |-> compute_content_hash(value_to_string(v)),
     value_json |-> value_to_string(v),
     updated_at |-> t]

RowsOf(tbl, a) == {r \in tbl : r.id = a}

(***************************************************************************)
(* History ledger (services/history.rs).                                   *)
(***************************************************************************)
HistoryOf(h, a) == {e \in h : e.asset_id = a}

\* count_history (history.rs:137-143)
count_history(h, a) == Cardinality(HistoryOf(h, a))

\* ORDER BY created_at DESC over idx_history_time (database.rs:144-145): rows
\* of one asset by falling created_at, rows of one millisecond by rising id.
Before(x, e) ==
    \/ x.created_at > e.created_at
    \/ x.created_at = e.created_at /\ x.id < e.id

\* SELECT ... WHERE asset_id = ?1 ORDER BY created_at DESC LIMIT ?2
NewestOf(h, a, limit) ==
    IF count_history(h, a) <= limit THEN HistoryOf(h, a)
    ELSE {e \in HistoryOf(h, a) :
            Cardinality({x \in HistoryOf(h, a) : Before(x, e)}) < limit}

\* cleanup_old_history (history.rs:104-119): DELETE ... WHERE asset_id = ?1
\* AND id NOT IN (the newest MAX_HISTORY_PER_ASSET ids of that asset).
\* (Without the outer asset_id = ?1 the rows of every other asset would go.)
cleanup_any_asset(h, a) == NewestOf(h, a, MAX_HISTORY_PER_ASSET)
cleanup_old_history(h, a) ==
    (h \ HistoryOf(h, a)) \cup NewestOf(h, a, MAX_HISTORY_PER_ASSET)

\* The unique index idx_history_dedup (database.rs:140-141) as INSERT OR
\* IGNORE sees it: a row with this (asset_id, content_hash) exists.
\* (A table without that index: no insert conflicts.)
ConflictsNever(h, a, hash) == FALSE
Conflicts(h, a, hash) ==
    \E e \in h : e.asset_id = a /\ e.content_hash = hash

\* create_snapshot_if_changed (history.rs:28-49), reading the clock as t
\* (history.rs:34): the table, the sequence and
\* the returned flag after the call.
create_snapshot_if_changed(h, s, a, hash, json, t) ==
    IF Conflicts(h, a, hash)
    THEN [history |-> h, seq |-> s, created |-> FALSE]
    ELSE [history |->
            cleanup_old_history(
                h \cup {[id |-> s + 1, asset_id |-> a, content_hash |-> hash,
                         content_json |-> json, created_at |-> t]}, a),
          seq |-> s + 1,
          created |-> TRUE]

\* The rows of set S as ORDER BY created_at DESC returns them.
Ordered(S) ==
    [i \in 1..Cardinality(S) |->
        CHOOSE e \in S : Cardinality({x \in S : Before(x, e)}) = i - 1]

\* The rows LIMIT n lets through: SQLite puts no upper bound on the number of
\* rows when the LIMIT expression is negative.
Limited(h, a, n) == IF n < 0 THEN HistoryOf(h, a) ELSE NewestOf(h, a, n)

\* get_asset_history (history.rs:52-78): limit.unwrap_or(50), then SELECT ...
\* WHERE asset_id = ?1 ORDER BY created_at DESC LIMIT ?2.
\* (A listing that ignored its limit would return every row of the asset.)
get_asset_history_unlimited(h, a, limit) == Ordered(HistoryOf(h, a))
get_asset_history(h, a, limit) ==
    Ordered(Limited(h, a, IF limit.some THEN limit.n ELSE 50))

\* get_history_entry (history.rs:81-101): the rows with this id (one or none).
get_history_entry(h, history_id) == {e \in h : e.id = history_id}

NoHash == compute_content_hash(value_to_string(0))

\* get_current_hash (history.rs:122-134): SELECT content_hash FROM assets
\* WHERE id = ?1.  Err when the statement does not compile, else the hash of
\* the row or None.
get_current_hash(tbl, a) ==
    IF ~Prepares({"content_hash", "id"}, AssetsColumns)
    THEN [ok |-> FALSE, some |-> FALSE, hash |-> NoHash]
    ELSE IF RowsOf(tbl, a) # {}
    THEN [ok |-> TRUE, some |-> TRUE,
          hash |-> (CHOOSE r \in RowsOf(tbl, a) : TRUE).content_hash]
    ELSE [ok |-> TRUE, some |-> FALSE, hash |-> NoHash]

(***************************************************************************)
(* The calls on the store.                                                 *)
(***************************************************************************)
\* limit: Option<i32>
NoLimit == [some |-> FALSE, n |-> 0]

NoCall ==
    [op |-> "none", asset_id |-> 0, content |-> 0, history_id |-> 0,
     ok |-> FALSE, err |-> "", flag |-> FALSE, value |-> 0,
     had_row |-> FALSE, old_content |-> 0, count_before |-> 0,
     limit |-> NoLimit, listed |-> <<>>, pc |-> "idle"]

\* What the call record keeps of the state the call began in.
Began(op, a) ==
    [NoCall EXCEPT !.op = op, !.asset_id = a,
                   !.had_row = RowsOf(assets, a) # {},
                   !.old_content =
                       IF RowsOf(assets, a) # {}
                       THEN value_from_str(
                                (CHOOSE r \in RowsOf(assets, a) : TRUE).value_json)
                       ELSE 0,
                   !.count_before = count_history(asset_history, a)]

\* A direct call of history::create_snapshot_if_changed(conn, a, hash(c), c),
\* as the module's tests make it, at millisecond t.
snapshot_call(a, c, t) ==
    /\ calls < MaxCalls
    /\ LET json == value_to_string(c)
           hash == compute_content_hash(json)
           r == create_snapshot_if_changed(asset_history, seq, a, hash, json, t)
       IN /\ asset_history' = r.history
          /\ seq' = r.seq
          /\ call' = [Began("create_snapshot_if_changed", a) EXCEPT
                          !.content = c, !.ok = TRUE, !.flag = r.created]
    /\ now' = t
    /\ calls' = calls + 1
    /\ issued' = [issued EXCEPT ![a] = IF c > @ THEN c ELSE @]
    /\ onlyFresh' = [onlyFresh EXCEPT ![a] = @ /\ c > issued[a]]
    /\ UNCHANGED assets

\* The clock read by a call: the millisecond of the previous call or the next.
Clock == {now, now + 1}

(***************************************************************************)
(* SpecLedger: the ledger under direct snapshot calls.  It starts from the *)
(* ledger that k successive snapshot calls with k new contents for asset 1 *)
(* leave, made within one millisecond or one millisecond apart.            *)
(***************************************************************************)
\* The rows k <= MAX_HISTORY_PER_ASSET successive calls insert (history.rs:35-39):
\* ids 1..k from the AUTOINCREMENT sequence, none deleted by the cleanup since
\* the count never exceeds the cap.
Prefill(k, tied) ==
    [history |->
        {[id |-> i, asset_id |-> 1,
          content_hash |-> compute_content_hash(value_to_string(i)),
          content_json |-> value_to_string(i),
          created_at |-> IF tied THEN 0 ELSE i] : i \in 1..k},
     seq |-> k]

PrefillSizes == {0, MAX_HISTORY_PER_ASSET - 1, MAX_HISTORY_PER_ASSET}

InitLedgerDb ==
    \E k \in PrefillSizes, tied \in BOOLEAN :
        /\ assets = {}
        /\ asset_history = Prefill(k, tied).history
        /\ seq = Prefill(k, tied).seq
        /\ now = IF tied THEN 0 ELSE k
        /\ issued = [a \in AssetIds |-> IF a = 1 THEN k ELSE 0]
        /\ onlyFresh = [a \in AssetIds |-> TRUE]
        /\ calls = 0
        /\ call = NoCall

\* The contents a caller of the ledger passes for asset a: the next new one,
\* the latest one again, or the first one again.
LedgerInputs(a) == {c \in {issued[a] + 1, issued[a], 1} : c >= 1}

NextLedger ==
    \E a \in AssetIds, t \in Clock : \E c \in LedgerInputs(a) :
        snapshot_call(a, c, t) /\ UNCHANGED <<docVars, storeVars, concVars, cmdVars>>

(***************************************************************************)
(* SpecLedgerSteps: create_snapshot_if_changed one statement at a time.    *)
(* The function opens no transaction, so each conn.execute commits on its  *)
(* own; one call runs at a time (a single writer).                         *)
(***************************************************************************)
\* history.rs:34-41: the clock is read and INSERT OR IGNORE is executed; with
\* no row inserted the call returns Ok(false) at once.
snapshot_insert(a, c, t) ==
    /\ call.pc = "idle"
    /\ calls < MaxCalls
    /\ LET json == value_to_string(c)
           hash == compute_content_hash(json)
       IN IF Conflicts(asset_history, a, hash)
          THEN /\ UNCHANGED <<asset_history, seq>>
               /\ call' = [Began("create_snapshot_if_changed", a) EXCEPT
                               !.content = c, !.ok = TRUE, !.flag = FALSE]
          ELSE /\ asset_history' = asset_history \cup
                      {[id |-> seq + 1, asset_id |-> a, content_hash |-> hash,
                        content_json |-> json, created_at |-> t]}
               /\ seq' = seq + 1
               /\ call' = [Began("create_snapshot_if_changed", a) EXCEPT
                               !.content = c, !.pc = "cleanup"]
    /\ now' = t
    /\ calls' = calls + 1
    /\ issued' = [issued EXCEPT ![a] = IF c > @ THEN c ELSE @]
    /\ onlyFresh' = [onlyFresh EXCEPT ![a] = @ /\ c > issued[a]]
    /\ UNCHANGED assets

\* history.rs:44-48: cleanup_old_history, then Ok(true).
snapshot_cleanup ==
    /\ call.pc = "cleanup"
    /\ asset_history' = cleanup_old_history(asset_history, call.asset_id)
    /\ call' = [call EXCEPT !.pc = "idle", !.ok = TRUE, !.flag = TRUE]
    /\ UNCHANGED <<assets, seq, now, issued, onlyFresh, calls>>

\* The `?` of history.rs:45: the DELETE fails (disk full, database locked)
\* and the error is returned; the inserted row stays committed.
snapshot_cleanup_fail ==
    /\ call.pc = "cleanup"
    /\ call' = [call EXCEPT !.pc = "idle", !.err = "Database"]
    /\ UNCHANGED <<assets, asset_history, seq, now, issued, onlyFresh, calls>>

\* The process dies between the two statements; the inserted row stays
\* committed and the application starts again.
snapshot_crash ==
    /\ call.pc = "cleanup"
    /\ call' = [call EXCEPT !.pc = "idle", !.err = "crashed"]
    /\ UNCHANGED <<assets, asset_history, seq, now, issued, onlyFresh, calls>>

NextLedgerSteps ==
    \/ \E a \in AssetIds, t \in Clock : \E c \in LedgerInputs(a) :
         snapshot_insert(a, c, t) /\ UNCHANGED <<docVars, storeVars, concVars, cmdVars>>
    \/ snapshot_cleanup /\ UNCHANGED <<docVars, storeVars, concVars, cmdVars>>
    \/ snapshot_cleanup_fail /\ UNCHANGED <<docVars, storeVars, concVars, cmdVars>>
    \/ snapshot_crash /\ UNCHANGED <<docVars, storeVars, concVars, cmdVars>>

(***************************************************************************)
(* SpecListing: get_asset_history called on ledgers of a few entries, as   *)
(* snapshot calls leave and extend them.                                   *)
(***************************************************************************)
\* The limits a caller passes: none, and every i32 around the sizes of the
\* ledger, a negative one included.
Limits == {NoLimit} \cup {[some |-> TRUE, n |-> i] : i \in (0 - 1)..(MaxEntries + 1)}

\* A direct call of history::get_asset_history(conn, a, limit).
list_call(a, limit) ==
    /\ call' = [Began("get_asset_history", a) EXCEPT
                    !.ok = TRUE, !.limit = limit,
                    !.listed = get_asset_history(asset_history, a, limit)]
    /\ UNCHANGED <<assets, asset_history, seq, now, issued, onlyFresh, calls>>

InitListingDb ==
    \E k \in 0..MaxEntries, tied \in BOOLEAN :
        /\ assets = {}
        /\ asset_history = Prefill(k, tied).history
        /\ seq = Prefill(k, tied).seq
        /\ now = IF tied THEN 0 ELSE k
        /\ issued = [a \in AssetIds |-> IF a = 1 THEN k ELSE 0]
        /\ onlyFresh = [a \in AssetIds |-> TRUE]
        /\ calls = 0
        /\ call = NoCall

\* Between listings the ledger grows by snapshot calls with new contents (a
\* repeated content leaves the ledger as it is).
NextListing ==
    \/ \E a \in AssetIds, t \in Clock :
         snapshot_call(a, issued[a] + 1, t)
            /\ UNCHANGED <<docVars, storeVars, concVars, cmdVars>>
    \/ \E a \in AssetIds, limit \in Limits :
         list_call(a, limit) /\ UNCHANGED <<docVars, storeVars, concVars, cmdVars>>

(***************************************************************************)
(* The history commands (commands/history.rs).                             *)
(***************************************************************************)
\* The columns the upsert of commands/history.rs:67-77 names.
UpsertColumns ==
    {"id", "value_type", "value_hash", "value_json", "value_meta_json",
     "config_json", "sys_json", "updated_at"}

\* The columns the UPDATE of commands/history.rs:193 names.  (Naming the
\* columns of the schema, the statement would compile.)
RestoreColumnsOfSchema == {"value_json", "value_hash", "updated_at", "id"}
RestoreColumns == {"content_json", "content_hash", "updated_at", "id"}

\* commands/history.rs:47-51: SELECT value_json FROM assets WHERE id = ?1,
\* errors turned into None by .ok().
old_value_of(tbl, a) ==
    IF Prepares({"value_json", "id"}, AssetsColumns) /\ RowsOf(tbl, a) # {}
    THEN [some |-> TRUE, json |-> (CHOOSE r \in RowsOf(tbl, a) : TRUE).value_json]
    ELSE [some |-> FALSE, json |-> value_to_string(0)]

\* save_asset_with_history (commands/history.rs:23-91) for asset a carrying
\* value v, reading the clock as t.
save_asset_with_history(a, v, t) ==
    /\ calls < MaxCalls
    /\ calls' = calls + 1
    /\ LET value_json == value_to_string(v)
           new_hash == compute_content_hash(value_json)
           old_hash == get_current_hash(assets, a)
           hash_changed == ~(old_hash.some /\ old_hash.hash = new_hash)
           old_value == old_value_of(assets, a)
           snap == IF hash_changed /\ old_hash.some /\ old_value.some
                   THEN create_snapshot_if_changed(
                            asset_history, seq, a, old_hash.hash, old_value.json, t)
                   ELSE [history |-> asset_history, seq |-> seq, created |-> FALSE]
           began == [Began("save_asset_with_history", a) EXCEPT !.content = v]
       IN IF ~old_hash.ok
          THEN /\ call' = [began EXCEPT !.err = "Failed to get current hash"]
               /\ UNCHANGED <<assets, asset_history, seq, now>>
          ELSE IF ~Prepares(UpsertColumns, AssetsColumns)
          THEN /\ call' = [began EXCEPT !.err = "Failed to save asset"]
               /\ asset_history' = snap.history
               /\ seq' = snap.seq
               /\ now' = t
               /\ UNCHANGED assets
          ELSE /\ call' = [began EXCEPT !.ok = TRUE, !.flag = hash_changed]
               /\ asset_history' = snap.history
               /\ seq' = snap.seq
               /\ now' = t
               /\ assets' = (assets \ RowsOf(assets, a)) \cup {AssetRow(a, v, t)}
    /\ UNCHANGED <<issued, onlyFresh>>

\* commands/history.rs:181: the entry belongs to the asset named in the call.
\* (Without the comparison every entry would be accepted.)
BelongsToAny(entry, a) == TRUE
BelongsTo(entry, a) == entry.asset_id = a

\* restore_asset_version (commands/history.rs:164-198) of asset a to the
\* history entry history_id, reading the clock as t.
restore_asset_version(a, history_id, t) ==
    /\ calls < MaxCalls
    /\ calls' = calls + 1
    /\ LET found == get_history_entry(asset_history, history_id)
           began == [Began("restore_asset_version", a) EXCEPT
                         !.history_id = history_id]
       IN IF found = {}
          THEN /\ call' = [began EXCEPT !.err = "NotFound"]
               /\ UNCHANGED <<assets, now>>
          ELSE LET entry == CHOOSE e \in found : TRUE
               IN IF ~BelongsTo(entry, a)
                  THEN /\ call' = [began EXCEPT !.err = "Unknown"]
                       /\ UNCHANGED <<assets, now>>
                  ELSE IF ~Prepares(RestoreColumns, AssetsColumns)
                  THEN /\ call' = [began EXCEPT !.err = "Failed to restore asset"]
                       /\ now' = t
                       /\ UNCHANGED assets
                  ELSE /\ call' = [began EXCEPT
                                      !.ok = TRUE,
                                      !.value = value_from_str(entry.content_json)]
                       /\ now' = t
                       /\ assets' =
                            {IF r.id = a
                             THEN [r EXCEPT
                                     !.value_json = entry.content_json,
                                     !.value_hash =
                                        compute_content_hash(entry.content_json),
                                     !.updated_at = t]
                             ELSE r : r \in assets}
    /\ UNCHANGED <<asset_history, seq, issued, onlyFresh>>

(***************************************************************************)
(* SpecAssets: the commands, and direct snapshot calls, on a store whose   *)
(* assets table holds for each asset no row or one row of the schema and   *)
(* whose ledger is empty.                                                  *)
(***************************************************************************)
InitAssetsDb ==
    /\ assets \in {rows \in SUBSET {AssetRow(a, v, 0) : a \in AssetIds, v \in {1, MaxValue}} :
                      \A a \in AssetIds : Cardinality(RowsOf(rows, a)) <= 1}
    /\ asset_history = {}
    /\ seq = 0
    /\ now = 0
    /\ issued = [a \in AssetIds |-> 0]
    /\ onlyFresh = [a \in AssetIds |-> TRUE]
    /\ calls = 0
    /\ call = NoCall

\* The history ids a caller passes: the first, the latest, one never issued.
HistoryIds == {1, seq, seq + 1}

\* The calls on this store are made at least a millisecond apart.
NextAssets ==
    \/ \E a \in AssetIds, v \in Values :
         snapshot_call(a, v, now + 1) /\ UNCHANGED <<docVars, storeVars, concVars, cmdVars>>
    \/ \E a \in AssetIds, v \in Values :
         save_asset_with_history(a, v, now + 1) /\ UNCHANGED <<docVars, storeVars, concVars, cmdVars>>
    \/ \E a \in AssetIds : \E h \in HistoryIds :
         restore_asset_version(a, h, now + 1) /\ UNCHANGED <<docVars, storeVars, concVars, cmdVars>>

(***************************************************************************)
(* SpecHistoryView: the two reading commands of commands/history.rs on the *)
(* store of SpecAssets, whose ledger grows by snapshot calls.              *)
(***************************************************************************)
\* get_asset_history, the command (commands/history.rs:95-141): the current
\* version of the assets table first, under the special id 0, then the
\* snapshots history::get_asset_history returns for the limit
\* limit.map(|l| if l > 1 { l - 1 } else { l }).  Of the fields of a returned
\* entry the preview of the content is left out.
cmd_get_asset_history(a, limit) ==
    /\ calls < MaxCalls
    /\ calls' = calls + 1
    /\ LET current ==
               IF Prepares({"value_hash", "value_json", "updated_at", "id"}, AssetsColumns)
                  /\ RowsOf(assets, a) # {}
               THEN LET r == CHOOSE r \in RowsOf(assets, a) : TRUE
                    IN  <<[id |-> 0, asset_id |-> a, content_hash |-> r.value_hash,
                           created_at |-> r.updated_at]>>
               ELSE <<>>
           history_limit ==
               IF limit.some
               THEN [some |-> TRUE, n |-> IF limit.n > 1 THEN limit.n - 1 ELSE limit.n]
               ELSE NoLimit
           entries == get_asset_history(asset_history, a, history_limit)
           result == current \o
                     [i \in 1..Len(entries) |->
                         [id |-> entries[i].id, asset_id |-> entries[i].asset_id,
                          content_hash |-> entries[i].content_hash,
                          created_at |-> entries[i].created_at]]
       IN call' = [Began("get_asset_history_command", a) EXCEPT
                       !.ok = TRUE, !.limit = limit, !.listed = result]
    /\ UNCHANGED <<assets, asset_history, seq, now, issued, onlyFresh>>

\* get_history_content (commands/history.rs:145-160): the content_json of
\* the asset_history row with this id, NotFound when there is none.
get_history_content(history_id) ==
    /\ calls < MaxCalls
    /\ calls' = calls + 1
    /\ LET found == get_history_entry(asset_history, history_id)
           began == [Began("get_history_content", 0) EXCEPT !.history_id = history_id]
       IN IF found = {}
          THEN call' = [began EXCEPT !.err = "NotFound"]
          ELSE call' = [began EXCEPT
                            !.ok = TRUE,
                            !.value = value_from_str((CHOOSE e \in found : TRUE).content_json)]
    /\ UNCHANGED <<assets, asset_history, seq, now, issued, onlyFresh>>

\* Snapshots of new contents a millisecond apart, listings under every limit,
\* and readings of the ids a listing can have returned.
NextHistoryView ==
    \/ \E a \in AssetIds :
         snapshot_call(a, issued[a] + 1, now + 1)
            /\ UNCHANGED <<docVars, storeVars, concVars, cmdVars>>
    \/ \E a \in AssetIds, limit \in Limits :
         cmd_get_asset_history(a, limit)
            /\ UNCHANGED <<docVars, storeVars, concVars, cmdVars>>
    \/ \E h \in {0} \cup HistoryIds :
         get_history_content(h) /\ UNCHANGED <<docVars, storeVars, concVars, cmdVars>>

(***************************************************************************)
(* Project values (models.rs).  A document on disk is identified by a      *)
(* project number; ProjectOf gives the SynniaProject it serializes.  The   *)
(* graph and the registries are sets of records, a HashMap is the set of   *)
(* its entries, Option<HashMap> carries its Some/None tag.                 *)
(***************************************************************************)
Names == {1, 2}                 \* project names a caller may pass to init

NoSettings == [some |-> FALSE, map |-> {}]

\* The project init_project builds: empty graph and registry, default
\* viewport, no settings.
FreshProject(version, name) ==
    [version |-> version,
     meta |-> [id |-> 1, name |-> name],
     viewport |-> [x |-> 0, y |-> 0, zoom |-> 1],
     nodes |-> {},
     edges |-> {},
     assets |-> {},
     settings |-> NoSettings]

\* The number under which the document backend stores the fresh project
\* named n.
FreshId(n) == 0 - n

\* Projects a caller passes to save.  Every one has a node bound to asset 1,
\* an edge and a settings entry; an odd project carries asset 1 in its
\* registry, an even project has an empty registry, so that its node names
\* an asset the project does not hold, and its edge ends at a node the
\* project does not hold.
ProjectOf(p) ==
    IF p < 0 THEN FreshProject("2.0.0", 0 - p)
    ELSE [version |-> "2.0.0",
          meta |-> [id |-> 1, name |-> p],
          viewport |-> [x |-> p, y |-> p, zoom |-> 2],
          nodes |-> {[id |-> 1, asset_id |-> 1]},
          edges |-> {[id |-> 1, source |-> 1,
                      target |-> IF p % 2 = 1 THEN 1 ELSE 2]},
          assets |-> IF p % 2 = 1 THEN {[id |-> 1, value |-> p]} ELSE {},
          settings |-> [some |-> TRUE, map |-> {[key |-> 1, value |-> p]}]]

NoProject == FreshProject("", 0)

\* Nodes of a project whose asset_id is not a key of its asset registry.
DanglingNodes(project) ==
    {n \in project.nodes : \A a \in project.assets : a.id # n.asset_id}

\* The edges of a project with an endpoint that is no node of the project
\* (SynniaEdge.source and .target are plain strings, models.rs:273).
DanglingEdges(project) ==
    {e \in project.edges :
        \/ \A n \in project.nodes : n.id # e.source
        \/ \A n \in project.nodes : n.id # e.target}

(***************************************************************************)
(* Document backend, whole calls (services/io.rs), as functions of the     *)
(* files of an existing project root.                                      *)
(***************************************************************************)
\* save_project run to its Ok(()): the canonical document is replaced by the
\* new serialization, the temp file is gone, the autosave artifact removed.
io_save_project(files, p) ==
    [x \in Paths |-> IF x = file_path THEN to_string_pretty(p) ELSE NoFile]

\* load_project: the result with the project value it deserialized.
io_load_project(files) ==
    LET r == load_result(files)
    IN  [ok |-> r.ok, err |-> r.err,
         project |-> IF r.ok THEN ProjectOf(r.project) ELSE NoProject]

\* init_project looks for synnia.json only.  (An init that never looked
\* would always build a fresh project.)
InitFindsNoDocument(files) == FALSE
InitFindsDocument(files) == files[file_path] # NoFile

\* init_project: load when the canonical document exists, otherwise build
\* the fresh project, save it once and return it.
io_init_project(files, name) ==
    IF InitFindsDocument(files)
    THEN [files |-> files, result |-> io_load_project(files)]
    ELSE [files |-> io_save_project(files, FreshId(name)),
          result |-> [ok |-> TRUE, err |-> "",
                      project |-> FreshProject("2.0.0", name)]]

(***************************************************************************)
(* Transactional backend (services/io_sqlite.rs) over synnia.db.           *)
(* The database file is "absent", "empty" (a file without tables, as       *)
(* Connection::open leaves a path it had to create) or "schema" (SCHEMA_SQL *)
(* applied).  The project tables are sets of rows; the assets table is     *)
(* `assets`, the ledger `asset_history`.                                   *)
(***************************************************************************)
\* The viewport row SCHEMA_SQL inserts (database.rs:90).
DefaultViewportRow == [id |-> 1, x |-> 0, y |-> 0, zoom |-> 1]

NoDb ==
    [file |-> "absent", project_meta |-> {}, viewport |-> {},
     nodes |-> {}, edges |-> {}, settings |-> {}]

\* database::init_db on a path: the file with the schema and the default
\* viewport row (CREATE TABLE IF NOT EXISTS, INSERT OR IGNORE).
init_db(st) ==
    [st EXCEPT !.file = "schema",
               !.viewport = IF st.viewport = {} THEN {DefaultViewportRow}
                            ELSE st.viewport]

\* database::open_db: Connection::open creates the file when it is missing
\* and applies no schema.
open_db(st) == [st EXCEPT !.file = IF st.file = "absent" THEN "empty" ELSE st.file]

NoTxn ==
    [project_meta |-> {}, viewport |-> {}, nodes |-> {}, edges |-> {},
     settings |-> {}, assets |-> {}]

\* What a connection sees after BEGIN TRANSACTION on store st.
TablesOf(st, rows) ==
    [project_meta |-> st.project_meta, viewport |-> st.viewport,
     nodes |-> st.nodes, edges |-> st.edges, settings |-> st.settings,
     assets |-> rows]

\* save_project_meta: upsert on the primary key id.
save_project_meta(t, meta) ==
    [t EXCEPT !.project_meta = {r \in t.project_meta : r.id # meta.id} \cup {meta}]

\* save_viewport: UPDATE viewport ... WHERE id = 1.
save_viewport(t, viewport) ==
    [t EXCEPT !.viewport =
        {[id |-> r.id, x |-> viewport.x, y |-> viewport.y, zoom |-> viewport.zoom] :
            r \in {r \in t.viewport : r.id = 1}}
        \cup {r \in t.viewport : r.id # 1}]

\* save_nodes / save_edges: DELETE all rows, INSERT the project's.
save_nodes(t, nodes) == [t EXCEPT !.nodes = nodes]
save_edges(t, edges) == [t EXCEPT !.edges = edges]

\* The columns the upsert of save_assets names (io_sqlite.rs:480-487).
SaveAssetsColumns ==
    {"id", "type", "content_hash", "content_json", "metadata_json", "updated_at"}

\* The columns the SELECT of load_assets names (io_sqlite.rs:435).
LoadAssetsColumns == {"id", "type", "content_json", "metadata_json"}

\* save_assets: upsert every asset of the project, then, when the project
\* has assets, delete the rows of all other ids.  The first upsert that does
\* not compile ends it with "Failed to save asset"; on a project without
\* assets no statement is executed.
save_assets(t, projectAssets, at) ==
    IF projectAssets = {} THEN [ok |-> TRUE, tables |-> t]
    ELSE IF ~Prepares(SaveAssetsColumns, AssetsColumns)
    THEN [ok |-> FALSE, tables |-> t]
    ELSE [ok |-> TRUE,
          tables |-> [t EXCEPT !.assets =
                         {AssetRow(a.id, a.value, at) : a \in projectAssets}]]

\* save_settings: DELETE all rows, INSERT the entries of Some(settings).
save_settings(t, settings) ==
    [t EXCEPT !.settings = IF settings.some THEN settings.map ELSE {}]

\* load_settings: None when the table has no rows.
load_settings(st) ==
    IF st.settings = {} THEN NoSettings ELSE [some |-> TRUE, map |-> st.settings]

SqlErr(e, st) == [ok |-> FALSE, err |-> e, project |-> NoProject, file |-> st.file]

\* load_project_sqlite checks that synnia.db exists before it opens it.
\* (Opening whatever path it is given would create the file.)
LoadOpensAnyPath(st) == TRUE
LoadFindsDb(st) == st.file # "absent"

\* load_project_sqlite (io_sqlite.rs:89-127): the result, and the state of
\* the database file the call leaves behind.
load_project_sqlite(st, rows) ==
    IF ~LoadFindsDb(st) THEN SqlErr("NotFound", st)
    ELSE LET db == open_db(st)
         IN  IF db.file # "schema" THEN SqlErr("Io", db)
             ELSE IF db.project_meta = {} THEN SqlErr("NotFound", db)
             ELSE IF {r \in db.viewport : r.id = 1} = {} THEN SqlErr("Io", db)
             ELSE IF ~Prepares(LoadAssetsColumns, AssetsColumns) THEN SqlErr("Io", db)
             ELSE LET m == CHOOSE r \in db.project_meta : TRUE
                      v == CHOOSE r \in db.viewport : r.id = 1
                  IN  [ok |-> TRUE, err |-> "", file |-> db.file,
                       project |->
                         [version |-> "3.0.0",
                          meta |-> m,
                          viewport |-> [x |-> v.x, y |-> v.y, zoom |-> v.zoom],
                          nodes |-> db.nodes,
                          edges |-> db.edges,
                          assets |-> {[id |-> r.id,
                                       value |-> value_from_str(r.value_json)] :
                                         r \in rows},
                          settings |-> load_settings(db)]]

\* init_project_sqlite looks for synnia.db.
InitFindsDb(st) == st.file # "absent"

\* init_project_sqlite (io_sqlite.rs:32-86): load when the database exists,
\* otherwise create it, insert the metadata row and return the fresh project.
init_project_sqlite(st, rows, name) ==
    IF InitFindsDb(st)
    THEN [store |-> [st EXCEPT !.file = load_project_sqlite(st, rows).file],
          result |-> [ok |-> load_project_sqlite(st, rows).ok,
                      err |-> load_project_sqlite(st, rows).err,
                      project |-> load_project_sqlite(st, rows).project]]
    ELSE [store |-> [init_db(st) EXCEPT !.project_meta =
                         init_db(st).project_meta \cup {[id |-> 1, name |-> name]}],
          result |-> [ok |-> TRUE, err |-> "",
                      project |-> FreshProject("3.0.0", name)]]

(***************************************************************************)
(* SpecStore: init, save and load applied in the same order to a document  *)
(* root and a transactional root.  The document call runs to completion    *)
(* when the operation starts; save_project_sqlite runs statement by        *)
(* statement inside its transaction and may fail or die at each of them.   *)
(***************************************************************************)
Pending == [ok |-> FALSE, err |-> "none", project |-> NoProject]

Ok(project) == [ok |-> TRUE, err |-> "", project |-> project]

\* A result without the file state load_project_sqlite leaves behind.
ResultOf(r) == [ok |-> r.ok, err |-> r.err, project |-> r.project]

\* `before` is what load_project_sqlite would have returned when the operation
\* began, `stored` whether the database then held a committed project;
\* `lockstep` holds while both roots have been built from nothing by the same
\* calls and no environment fault has hit either of them.
NoOp ==
    [name |-> "none", arg |-> 0, doc |-> Pending, sql |-> Pending,
     before |-> Pending, lockstep |-> TRUE, fault |-> FALSE,
     stored |-> FALSE]

SqlIdle == sqlPc = "idle"

ledgerUnchanged == UNCHANGED <<asset_history, seq, now, issued, onlyFresh, call>>

docIdleUnchanged ==
    UNCHANGED <<rootExists, savePc, saveArg, saveResult, canonAtStart,
                autoPc, autoArg, autoResult, loaded, overlap, cmdVars>>

\* init on both roots with the same name.
store_init(name) ==
    /\ SqlIdle
    /\ calls < MaxCalls
    /\ calls' = calls + 1
    /\ fs' = io_init_project(fs, name).files
    /\ store' = init_project_sqlite(store, assets, name).store
    /\ last' = [NoOp EXCEPT !.name = "init", !.arg = name,
                          !.doc = io_init_project(fs, name).result,
                          !.sql = init_project_sqlite(store, assets, name).result,
                          !.before = ResultOf(load_project_sqlite(store, assets)),
                          !.lockstep = last.lockstep,
                          !.stored = store.project_meta # {}]
    /\ UNCHANGED <<assets, txn, sqlPc, sqlArg>>
    /\ ledgerUnchanged
    /\ docIdleUnchanged

\* load on both roots.
store_load ==
    /\ SqlIdle
    /\ calls < MaxCalls
    /\ calls' = calls + 1
    /\ store' = [store EXCEPT !.file = load_project_sqlite(store, assets).file]
    /\ last' = [NoOp EXCEPT !.name = "load",
                          !.doc = io_load_project(fs),
                          !.sql = ResultOf(load_project_sqlite(store, assets)),
                          !.before = ResultOf(load_project_sqlite(store, assets)),
                          !.lockstep = last.lockstep,
                          !.stored = store.project_meta # {}]
    /\ UNCHANGED <<fs, assets, txn, sqlPc, sqlArg>>
    /\ ledgerUnchanged
    /\ docIdleUnchanged

\* save of project p on both roots: io::save_project completes;
\* save_project_sqlite opens or creates the database and executes
\* BEGIN TRANSACTION (io_sqlite.rs:130-141).
store_save_begin(p) ==
    /\ SqlIdle
    /\ calls < MaxCalls
    /\ calls' = calls + 1
    /\ fs' = io_save_project(fs, p)
    /\ store' = IF store.file = "absent" THEN init_db(store) ELSE open_db(store)
    /\ txn' = TablesOf(store', assets)
    /\ sqlPc' = "meta"
    /\ sqlArg' = p
    /\ last' = [NoOp EXCEPT !.name = "save", !.arg = p,
                          !.doc = Ok(ProjectOf(p)),
                          !.before = ResultOf(load_project_sqlite(store, assets)),
                          !.lockstep = last.lockstep,
                          !.stored = store.project_meta # {}]
    /\ UNCHANGED assets
    /\ ledgerUnchanged
    /\ docIdleUnchanged

sqlStepUnchanged ==
    /\ UNCHANGED <<fs, store, assets, sqlArg, last, calls>>
    /\ ledgerUnchanged
    /\ docIdleUnchanged

\* ROLLBACK (io_sqlite.rs:159-162), or the rollback SQLite performs when the
\* connection is dropped or the journal is replayed after a crash: the
\* statements of the open transaction are discarded.
RolledBack(t) == NoTxn

\* What synnia.db holds once a transaction has ended with working tables t:
\* the committed tables when t was rolled back.
Settled(st, rows, t) ==
    IF t = NoTxn THEN [store |-> st, assets |-> rows]
    ELSE [store |-> [st EXCEPT !.project_meta = t.project_meta,
                               !.viewport = t.viewport,
                               !.nodes = t.nodes,
                               !.edges = t.edges,
                               !.settings = t.settings],
          assets |-> t.assets]

\* The error path: Err(e) after ROLLBACK.  `fault` tells an error of the
\* environment from one the statement produces on every run.
sql_return_err(fault) ==
    /\ store' = Settled(store, assets, RolledBack(txn)).store
    /\ assets' = Settled(store, assets, RolledBack(txn)).assets
    /\ txn' = NoTxn
    /\ sqlPc' = "idle"
    /\ last' = [last EXCEPT !.sql = [Pending EXCEPT !.err = "Io"], !.fault = fault,
                         !.lockstep = last.lockstep /\ ~fault]
    /\ UNCHANGED <<fs, sqlArg, calls>>
    /\ ledgerUnchanged
    /\ docIdleUnchanged

save_sqlite_meta ==
    /\ sqlPc = "meta"
    /\ IF store.file # "schema" THEN sql_return_err(FALSE)
       ELSE /\ txn' = save_project_meta(txn, ProjectOf(sqlArg).meta)
            /\ sqlPc' = "viewport"
            /\ sqlStepUnchanged

save_sqlite_viewport ==
    /\ sqlPc = "viewport"
    /\ txn' = save_viewport(txn, ProjectOf(sqlArg).viewport)
    /\ sqlPc' = "nodes"
    /\ sqlStepUnchanged

save_sqlite_nodes ==
    /\ sqlPc = "nodes"
    /\ txn' = save_nodes(txn, ProjectOf(sqlArg).nodes)
    /\ sqlPc' = "edges"
    /\ sqlStepUnchanged

save_sqlite_edges ==
    /\ sqlPc = "edges"
    /\ txn' = save_edges(txn, ProjectOf(sqlArg).edges)
    /\ sqlPc' = "assets"
    /\ sqlStepUnchanged

save_sqlite_assets ==
    /\ sqlPc = "assets"
    /\ IF ~save_assets(txn, ProjectOf(sqlArg).assets, now).ok THEN sql_return_err(FALSE)
       ELSE /\ txn' = save_assets(txn, ProjectOf(sqlArg).assets, now).tables
            /\ sqlPc' = "settings"
            /\ sqlStepUnchanged

save_sqlite_settings ==
    /\ sqlPc = "settings"
    /\ txn' = save_settings(txn, ProjectOf(sqlArg).settings)
    /\ sqlPc' = "commit"
    /\ sqlStepUnchanged

\* COMMIT, then Ok(()).
save_sqlite_commit ==
    /\ sqlPc = "commit"
    /\ store' = Settled(store, assets, txn).store
    /\ assets' = Settled(store, assets, txn).assets
    /\ txn' = NoTxn
    /\ sqlPc' = "idle"
    /\ last' = [last EXCEPT !.sql = Ok(NoProject)]
    /\ UNCHANGED <<fs, sqlArg, calls>>
    /\ ledgerUnchanged
    /\ docIdleUnchanged

\* A statement of the transaction, or COMMIT, returns an error (I/O error,
\* disk full, database locked).
save_sqlite_error ==
    /\ ~SqlIdle
    /\ sql_return_err(TRUE)

\* The process dies before COMMIT; the call never returns.
save_sqlite_crash ==
    /\ ~SqlIdle
    /\ store' = Settled(store, assets, RolledBack(txn)).store
    /\ assets' = Settled(store, assets, RolledBack(txn)).assets
    /\ txn' = NoTxn
    /\ sqlPc' = "idle"
    /\ last' = [last EXCEPT !.sql = [Pending EXCEPT !.err = "died"], !.fault = TRUE,
                         !.lockstep = FALSE]
    /\ UNCHANGED <<fs, sqlArg, calls>>
    /\ ledgerUnchanged
    /\ docIdleUnchanged

\* The roots before the first operation: both without a backing store, or
\* both left by earlier sessions: a canonical document, and a database that
\* holds a committed project without registry entries together with asset
\* rows of the schema.
InitStoreDb ==
    /\ \/ /\ fs = [x \in Paths |-> NoFile]
          /\ store = NoDb
          /\ assets = {}
          /\ last = NoOp
       \/ /\ \E p \in Projects :
               fs = [x \in Paths |-> IF x = file_path THEN to_string_pretty(p) ELSE NoFile]
          /\ \E q \in {p \in Projects : ProjectOf(p).assets = {}} :
               store = Settled(init_db(NoDb), {},
                          save_settings(save_edges(save_nodes(save_viewport(
                              save_project_meta(TablesOf(init_db(NoDb), {}),
                                                ProjectOf(q).meta),
                              ProjectOf(q).viewport),
                              ProjectOf(q).nodes),
                              ProjectOf(q).edges),
                              ProjectOf(q).settings)).store
          /\ assets \in {rows \in SUBSET {AssetRow(a, v, 0) : a \in AssetIds,
                                                           v \in {1, MaxValue}} :
                            \A a \in AssetIds : Cardinality(RowsOf(rows, a)) <= 1}
          /\ last = [NoOp EXCEPT !.lockstep = FALSE]
    /\ rootExists = TRUE
    /\ savePc = "idle" /\ saveArg = 0 /\ saveResult = "none"
    /\ canonAtStart = NoFile
    /\ autoPc = "idle" /\ autoArg = 0 /\ autoResult = "none"
    /\ loaded = NoResult
    /\ asset_history = {}
    /\ seq = 0
    /\ now = 0
    /\ issued = [a \in AssetIds |-> 0]
    /\ onlyFresh = [a \in AssetIds |-> TRUE]
    /\ calls = 0
    /\ call = NoCall
    /\ txn = NoTxn
    /\ sqlPc = "idle"
    /\ sqlArg = 0
    /\ overlap = FALSE
    /\ InitCmdIdle

NextStore ==
    \/ \E n \in Names : store_init(n)
    \/ \E p \in Projects : store_save_begin(p)
    \/ store_load
    \/ save_sqlite_meta
    \/ save_sqlite_viewport
    \/ save_sqlite_nodes
    \/ save_sqlite_edges
    \/ save_sqlite_assets
    \/ save_sqlite_settings
    \/ save_sqlite_commit
    \/ save_sqlite_error
    \/ save_sqlite_crash

(***************************************************************************)
(* Specifications                                                          *)
(***************************************************************************)
(* SpecReset: the project commands on one document root, with the content  *)
(* of its files: load_project, save_project, init_project, reset_project   *)
(* (commands/project.rs) and the autosave of io.rs, one whole call at a    *)
(* time.                                                                   *)
(***************************************************************************)
\* The path under which the commands of this specification name the root.
RootPath == [dir |-> 1, spelling |-> 0]

resetUnchanged ==
    UNCHANGED <<rootExists, savePc, saveArg, saveResult, canonAtStart, autoPc,
                autoArg, autoResult, loaded, overlap, dirs, cmd, dbVars,
                store, txn, sqlPc, sqlArg>>

\* The load_project command (project.rs:90-110): io::load_project, then the
\* path is set.
doc_load ==
    /\ last' = [NoOp EXCEPT !.name = "load", !.doc = io_load_project(fs)]
    /\ current_project_path' =
           IF io_load_project(fs).ok THEN RootPath ELSE current_project_path
    /\ recent_projects' =
           IF io_load_project(fs).ok THEN add_recent(recent_projects, RootPath)
           ELSE recent_projects
    /\ fs' = fs
    /\ resetUnchanged

\* The init_project command (project.rs:53-87): io::init_project, then the
\* path is set.
doc_init(name) ==
    /\ last' = [NoOp EXCEPT !.name = "init", !.arg = name,
                          !.doc = io_init_project(fs, name).result]
    /\ current_project_path' =
           IF io_init_project(fs, name).result.ok THEN RootPath
           ELSE current_project_path
    /\ recent_projects' =
           IF io_init_project(fs, name).result.ok
           THEN add_recent(recent_projects, RootPath)
           ELSE recent_projects
    /\ fs' = io_init_project(fs, name).files
    /\ resetUnchanged

\* The save_project command (project.rs:113-122) on the loaded project.
doc_save(p) ==
    /\ current_project_path # NoPath
    /\ last' = [NoOp EXCEPT !.name = "save", !.arg = p, !.doc = Ok(NoProject)]
    /\ fs' = io_save_project(fs, p)
    /\ UNCHANGED <<current_project_path, recent_projects>>
    /\ resetUnchanged

\* io::save_project_autosave (io.rs:7-16) of the loaded project.
doc_autosave(p) ==
    /\ current_project_path # NoPath
    /\ last' = [NoOp EXCEPT !.name = "autosave", !.arg = p, !.doc = Ok(NoProject)]
    /\ fs' = [fs EXCEPT ![autosave_path] = to_string(p)]
    /\ UNCHANGED <<current_project_path, recent_projects>>
    /\ resetUnchanged

\* reset_project (project.rs:218-236): ProjectNotLoaded without a path;
\* io::init_project(&project_path, name)?, then io::load_project, whose
\* result is returned.
doc_reset(name) ==
    /\ last' =
          [NoOp EXCEPT
              !.name = "reset", !.arg = name,
              !.doc = IF current_project_path = NoPath
                      THEN [ok |-> FALSE, err |-> "ProjectNotLoaded",
                            project |-> NoProject]
                      ELSE IF ~io_init_project(fs, name).result.ok
                      THEN io_init_project(fs, name).result
                      ELSE io_load_project(io_init_project(fs, name).files)]
    /\ fs' = IF current_project_path = NoPath THEN fs
             ELSE io_init_project(fs, name).files
    /\ UNCHANGED <<current_project_path, recent_projects>>
    /\ resetUnchanged

NextReset ==
    \/ doc_load
    \/ \E name \in Names : doc_init(name)
    \/ \E p \in Projects : doc_save(p)
    \/ \E p \in Projects : doc_autosave(p)
    \/ \E name \in Names : doc_reset(name)

(***************************************************************************)
(* SpecRecent: GlobalConfig::add_recent called on the list that k calls    *)
(* with k new paths leave.  Path n is the string of directory n.           *)
(***************************************************************************)
RecentPath(n) == [dir |-> n, spelling |-> 0]

InitRecentDb ==
    \E k \in {0, MAX_RECENT - 1, MAX_RECENT} :
        /\ recent_projects = [i \in 1..k |-> RecentPath(k + 1 - i)]
        /\ current_project_path = NoPath
        /\ dirs = [d \in Dirs |-> Absent]
        /\ cmd = NoCmd

recent_add(path) ==
    /\ calls < MaxCalls
    /\ calls' = calls + 1
    /\ recent_projects' = add_recent(recent_projects, path)
    /\ cmd' = Outcome("add_recent", path, TRUE, "", 0)
    /\ UNCHANGED <<current_project_path, dirs, docVars, storeVars, concVars,
                   assets, asset_history, seq, now, issued, onlyFresh, call>>

NextRecent == \E n \in 1..MaxPaths : recent_add(RecentPath(n))

(***************************************************************************)
(* The command layer (commands/project.rs, commands/history.rs).  The      *)
(* commands are synchronous functions and run one at a time.  A path       *)
(* argument is a string; two strings may name the same directory (another  *)
(* letter case on a case-insensitive file system, a `..` or a symbolic     *)
(* link on the way), so a path is a directory together with its spelling.  *)
(* File-system calls act on the directory, PathBuf == compares spellings.  *)
(***************************************************************************)
\* PathBuf::from(current) == path_buf (project.rs:150-154, 190-194).
should_close(current, path) == current # NoPath /\ current = path

\* init_project (project.rs:53-87): create the directories, io::init_project
\* (which writes synnia.json when it is missing), set the path, then the
\* global config and the event; a failing emit returns Err after the path
\* was set, a failing config.save is only printed.
cmd_init_project(path) ==
    \E io_ok, configured, emitted \in BOOLEAN :
        /\ recent_projects' = IF io_ok /\ configured
                              THEN add_recent(recent_projects, path)
                              ELSE recent_projects
        /\ dirs' = [dirs EXCEPT ![path.dir] =
                       [exists |-> TRUE, json |-> @.json \/ io_ok, db |-> @.db]]
        /\ current_project_path' = IF io_ok THEN path ELSE current_project_path
        /\ cmd' = IF ~io_ok THEN Outcome("init_project", path, FALSE, "Io", path.dir)
                  ELSE IF ~emitted
                  THEN Outcome("init_project", path, FALSE, "Unknown", path.dir)
                  ELSE Outcome("init_project", path, TRUE, "", path.dir)

\* load_project (project.rs:90-110): NotFound for a missing directory or
\* document, otherwise set the path, then the global config and the event.
cmd_load_project(path) ==
    \E configured, emitted \in BOOLEAN :
        /\ dirs' = dirs
        /\ IF ~dirs[path.dir].exists \/ ~dirs[path.dir].json
           THEN /\ current_project_path' = current_project_path
                /\ recent_projects' = recent_projects
                /\ cmd' = Outcome("load_project", path, FALSE, "NotFound", 0)
           ELSE /\ current_project_path' = path
                /\ recent_projects' = IF configured
                                      THEN add_recent(recent_projects, path)
                                      ELSE recent_projects
                /\ cmd' = IF configured /\ emitted
                          THEN Outcome("load_project", path, TRUE, "", 0)
                          ELSE Outcome("load_project", path, FALSE, "Unknown", 0)

\* save_project (project.rs:113-122): ProjectNotLoaded without a path;
\* io::save_project returns an Io error for a missing directory and
\* otherwise writes synnia.json.
cmd_save_project ==
    /\ current_project_path' = current_project_path
    /\ recent_projects' = recent_projects
    /\ IF current_project_path = NoPath
       THEN /\ dirs' = dirs
            /\ cmd' = Outcome("save_project", NoPath, FALSE, "ProjectNotLoaded", 0)
       ELSE IF ~dirs[current_project_path.dir].exists
       THEN /\ dirs' = dirs
            /\ cmd' = Outcome("save_project", current_project_path, FALSE, "Io", 0)
       ELSE /\ dirs' = [dirs EXCEPT ![current_project_path.dir].json = TRUE]
            /\ cmd' = Outcome("save_project", current_project_path, TRUE, "",
                              current_project_path.dir)

\* The history commands (history.rs:23, 95, 145, 164, 202).
HistoryCommands ==
    {"save_asset_with_history", "get_asset_history", "get_history_content",
     "restore_asset_version", "count_asset_history"}

\* A history command: get_project_path (history.rs:218-226), then
\* database::open_db on <path>/synnia.db, which creates the file when it is
\* missing and fails when the directory is; `done` is whether the statements
\* that follow succeed.
cmd_history(op) ==
    \E done \in BOOLEAN :
        /\ current_project_path' = current_project_path
        /\ recent_projects' = recent_projects
        /\ IF current_project_path = NoPath
           THEN /\ dirs' = dirs
                /\ cmd' = Outcome(op, NoPath, FALSE, "ProjectNotLoaded", 0)
           ELSE IF ~dirs[current_project_path.dir].exists
           THEN /\ dirs' = dirs
                /\ cmd' = Outcome(op, current_project_path, FALSE, "Io", 0)
           ELSE /\ dirs' = [dirs EXCEPT ![current_project_path.dir].db = TRUE]
                /\ cmd' = Outcome(op, current_project_path, done,
                                  IF done THEN "" ELSE "Io",
                                  current_project_path.dir)

\* The safety guard of delete_project (project.rs:138-145): the directory
\* holds synnia.json.  (Without the guard any directory would pass.)
IsAnyDirectory(d) == TRUE
IsSynniaProject(d) == d.json

\* delete_project (project.rs:131-171): NotFound, the safety guard, the path
\* cleared when it is spelled as the argument, remove_dir_all, the config.
cmd_delete_project(path) ==
    \E removed, configured \in BOOLEAN :
        IF ~dirs[path.dir].exists
        THEN /\ UNCHANGED <<current_project_path, dirs, recent_projects>>
             /\ cmd' = Outcome("delete_project", path, FALSE, "NotFound", 0)
        ELSE IF ~IsSynniaProject(dirs[path.dir])
        THEN /\ UNCHANGED <<current_project_path, dirs, recent_projects>>
             /\ cmd' = Outcome("delete_project", path, FALSE, "Unknown", 0)
        ELSE /\ recent_projects' =
                    IF removed /\ configured
                    THEN LET IsOther(p) == p # path
                         IN  SelectSeq(recent_projects, IsOther)
                    ELSE recent_projects
             /\ current_project_path' =
                    IF should_close(current_project_path, path) THEN NoPath
                    ELSE current_project_path
             /\ dirs' = IF removed THEN [dirs EXCEPT ![path.dir] = Absent] ELSE dirs
             /\ cmd' = IF ~removed
                       THEN Outcome("delete_project", path, FALSE, "Io", 0)
                       ELSE IF ~configured
                       THEN Outcome("delete_project", path, FALSE, "Unknown", path.dir)
                       ELSE Outcome("delete_project", path, TRUE, "", path.dir)

\* rename_project (project.rs:173-216): NotFound, the name taken, the path
\* cleared when it is spelled as the argument, fs::rename to the sibling
\* directory the new name gives, the config.
cmd_rename_project(old_path, new_dir) ==
    \E renamed, configured \in BOOLEAN :
        IF ~dirs[old_path.dir].exists
        THEN /\ UNCHANGED <<current_project_path, dirs, recent_projects>>
             /\ cmd' = Outcome("rename_project", old_path, FALSE, "NotFound", 0)
        ELSE IF dirs[new_dir].exists
        THEN /\ UNCHANGED <<current_project_path, dirs, recent_projects>>
             /\ cmd' = Outcome("rename_project", old_path, FALSE, "Unknown", 0)
        ELSE /\ recent_projects' =
                    IF renamed /\ configured
                    THEN [i \in 1..Len(recent_projects) |->
                            IF /\ recent_projects[i] = old_path
                               /\ \A j \in 1..(i - 1) : recent_projects[j] # old_path
                            THEN [dir |-> new_dir, spelling |-> 0]
                            ELSE recent_projects[i]]
                    ELSE recent_projects
             /\ current_project_path' =
                    IF should_close(current_project_path, old_path) THEN NoPath
                    ELSE current_project_path
             /\ dirs' = IF renamed
                        THEN [dirs EXCEPT ![new_dir] = dirs[old_path.dir],
                                          ![old_path.dir] = Absent]
                        ELSE dirs
             /\ cmd' = IF ~renamed
                       THEN Outcome("rename_project", old_path, FALSE, "Io", 0)
                       ELSE IF ~configured
                       THEN Outcome("rename_project", old_path, FALSE, "Unknown",
                                    old_path.dir)
                       ELSE Outcome("rename_project", old_path, TRUE, "", old_path.dir)

\* Every command counts towards the calls of a run.
cmdCounted ==
    /\ calls < MaxCalls
    /\ calls' = calls + 1
    /\ UNCHANGED <<docVars, storeVars, concVars, assets, asset_history, seq, now,
                   issued, onlyFresh, call>>

NextCommands ==
    \/ \E path \in PathStrings :
         cmd_init_project(path) /\ cmdCounted
    \/ \E path \in PathStrings :
         cmd_load_project(path) /\ cmdCounted
    \/ cmd_save_project /\ cmdCounted
    \/ \E op \in HistoryCommands :
         cmd_history(op) /\ cmdCounted
    \/ \E path \in PathStrings :
         cmd_delete_project(path) /\ cmdCounted
    \/ \E old_path \in PathStrings, new_dir \in Dirs :
         cmd_rename_project(old_path, new_dir)
            /\ cmdCounted

(***************************************************************************)
InitDocIdle ==
    /\ rootExists = TRUE
    /\ fs = [x \in Paths |-> NoFile]
    /\ savePc = "idle" /\ saveArg = 0 /\ saveResult = "none"
    /\ canonAtStart = NoFile
    /\ autoPc = "idle" /\ autoArg = 0 /\ autoResult = "none"
    /\ loaded = NoResult

InitDbIdle ==
    /\ assets = {}
    /\ asset_history = {}
    /\ seq = 0
    /\ now = 0
    /\ issued = [a \in AssetIds |-> 0]
    /\ onlyFresh = [a \in AssetIds |-> TRUE]
    /\ calls = 0
    /\ call = NoCall

InitStoreIdle ==
    /\ store = NoDb
    /\ txn = NoTxn
    /\ sqlPc = "idle"
    /\ sqlArg = 0
    /\ last = NoOp
    /\ overlap = FALSE
    /\ InitCmdIdle

Init == InitDoc /\ InitDbIdle /\ InitStoreIdle

Next == NextDoc

Spec == Init /\ [][Next]_vars

InitLedger == InitDocIdle /\ InitLedgerDb /\ InitStoreIdle

SpecLedger == InitLedger /\ [][NextLedger]_vars

InitAssets == InitDocIdle /\ InitAssetsDb /\ InitStoreIdle

SpecAssets == InitAssets /\ [][NextAssets]_vars

InitStore == InitStoreDb

InitLedgerSteps == InitDocIdle /\ InitLedgerDb /\ InitStoreIdle

SpecLedgerSteps == InitLedgerSteps /\ [][NextLedgerSteps]_vars

InitRecent ==
    /\ InitDocIdle
    /\ InitDbIdle
    /\ store = NoDb /\ txn = NoTxn /\ sqlPc = "idle" /\ sqlArg = 0 /\ last = NoOp
    /\ overlap = FALSE
    /\ InitRecentDb

SpecRecent == InitRecent /\ [][NextRecent]_vars

InitReset == InitDoc /\ rootExists /\ InitDbIdle /\ InitStoreIdle

SpecReset == InitReset /\ [][NextReset]_vars

InitCommands ==
    /\ InitDocIdle
    /\ InitDbIdle
    /\ store = NoDb /\ txn = NoTxn /\ sqlPc = "idle" /\ sqlArg = 0 /\ last = NoOp
    /\ overlap = FALSE
    /\ InitCmd

SpecCommands == InitCommands /\ [][NextCommands]_vars

InitHistoryView == InitDocIdle /\ InitAssetsDb /\ InitStoreIdle

SpecHistoryView == InitHistoryView /\ [][NextHistoryView]_vars

InitListing == InitDocIdle /\ InitListingDb /\ InitStoreIdle

SpecListing == InitListing /\ [][NextListing]_vars

InitConcurrent == InitDoc /\ InitDbIdle /\ InitStoreIdle

SpecConcurrent == InitConcurrent /\ [][NextConcurrent]_vars

SpecStore == InitStore /\ [][NextStore]_vars

(***************************************************************************)
(* Properties of the document backend (checked under Spec).                *)
(***************************************************************************)
\* C1: atomic save.  From the moment a save_project call begins, through
\* every step, crash and error return, synnia.json holds either exactly the
\* document it held when the call began or the complete serialization of the
\* project being saved; until the rename has happened (the call is still
\* before it, or it ended by a crash or an error with the temp file still
\* there) synnia.json is exactly as it was when the call began.
C1_AtomicSave ==
    saveArg # 0 =>
        /\ fs[file_path] \in {canonAtStart, to_string_pretty(saveArg)}
        /\ fs[file_path] # NoFile => Complete(fs[file_path])
        /\ savePc \in {"create", "write", "sync", "rename"} =>
               fs[file_path] = canonAtStart
        /\ (saveResult \in {"crashed", "err"} /\ fs[tmp_path] # NoFile) =>
               fs[file_path] = canonAtStart

\* C1, the case: the process died between the temp write and the rename of a
\* save of a different document over an existing one; the temp file is
\* complete and synnia.json still holds the earlier document.
C1_CrashBeforeRename ==
    /\ saveResult = "crashed"
    /\ Complete(fs[tmp_path])
    /\ fs[tmp_path].doc = saveArg
    /\ canonAtStart # NoFile
    /\ canonAtStart.doc # saveArg
    /\ fs[file_path] = canonAtStart

\* C2: hot-exit precedence.  A load_project made while both synnia.json and
\* the autosave artifact exist reads the autosave; once save_project has
\* returned Ok the autosave artifact is gone, and a load_project made then
\* returns the project just saved, read from synnia.json.
C2_HotExitPrecedence ==
    /\ (loaded.err # "none" /\ fs[file_path] # NoFile /\ fs[autosave_path] # NoFile) =>
           /\ loaded.from = autosave_path
           /\ loaded.ok => loaded.project = fs[autosave_path].doc
    /\ saveResult = "ok" =>
           /\ fs[autosave_path] = NoFile
           /\ loaded.err # "none" =>
                  /\ loaded.ok
                  /\ loaded.from = file_path
                  /\ loaded.project = saveArg

(***************************************************************************)
(* Properties of the history ledger (checked under SpecLedger).            *)
(***************************************************************************)
\* C3: dedup.  Of two create_snapshot_if_changed calls in a row with the same
\* (asset_id, content_hash), the first having returned true, the second
\* returns false and leaves the ledger as it was; and a call with a hash not
\* used before for the asset returns true.
C3_Dedup ==
    [][calls' = calls + 1 =>
          /\ (/\ call.op = "create_snapshot_if_changed"
              /\ call.flag
              /\ call'.asset_id = call.asset_id
              /\ call'.content = call.content) =>
                 (~call'.flag /\ asset_history' = asset_history)
          /\ call'.content > issued[call'.asset_id] => call'.flag]_vars

\* C4: in every reachable state of the ledger no two history entries share
\* the same (asset_id, content_hash) pair.
C4_PairUnique ==
    \A e1, e2 \in asset_history :
        (e1.asset_id = e2.asset_id /\ e1.content_hash = e2.content_hash) => e1 = e2

\* C4, the case: a call repeating a pair already in the ledger was ignored,
\* on a ledger that stands at the cap and has been trimmed.
C4_RepeatIgnoredAtCap ==
    /\ call.op = "create_snapshot_if_changed"
    /\ ~call.flag
    /\ seq > MAX_HISTORY_PER_ASSET
    /\ count_history(asset_history, call.asset_id) = MAX_HISTORY_PER_ASSET
    /\ \E e \in HistoryOf(asset_history, call.asset_id) :
           e.content_hash = compute_content_hash(value_to_string(call.content))

\* C5: retention.  After K successive create_snapshot_if_changed calls with
\* pairwise distinct hashes for an asset (contents 1..K), the asset has exactly
\* min(K, MAX_HISTORY_PER_ASSET) entries and they are the most recently
\* created ones (contents K-N+1..K); this for every asset, so a trim of one
\* asset removes nothing of another.
C5_Retention ==
    \A a \in AssetIds :
        onlyFresh[a] =>
            /\ count_history(asset_history, a) =
                   (IF issued[a] < MAX_HISTORY_PER_ASSET
                    THEN issued[a] ELSE MAX_HISTORY_PER_ASSET)
            /\ {value_from_str(e.content_json) : e \in HistoryOf(asset_history, a)} =
                   {c \in 1..issued[a] : c > issued[a] - MAX_HISTORY_PER_ASSET}

(***************************************************************************)
(* Properties of the history commands (checked under SpecAssets).          *)
(***************************************************************************)
HashOf(v) == compute_content_hash(value_to_string(v))

ContentsOf(h, a) == {value_from_str(e.content_json) : e \in HistoryOf(h, a)}

\* The stored content of asset a is v, with the matching hash.
Current(a, v) ==
    \E r \in RowsOf(assets, a) :
        r.value_json = value_to_string(v) /\ r.value_hash = HashOf(v)

\* C6: the upsert scenario, one step at a time.  save_asset_with_history on an
\* id with no stored row and no history returns changed=true and leaves the
\* history count at 0; on a row holding a different content c1, with no
\* history yet, it returns changed=true and the history count becomes 1, the
\* entry holding c1; on a row holding the same content it returns
\* changed=false and the history count stays as it was.
C6_UpsertScenario ==
    call.op = "save_asset_with_history" =>
        /\ (~call.had_row /\ call.count_before = 0) =>
               /\ call.ok /\ call.flag
               /\ count_history(asset_history, call.asset_id) = 0
        /\ (call.had_row /\ call.old_content # call.content /\ call.count_before = 0) =>
               /\ call.ok /\ call.flag
               /\ ContentsOf(asset_history, call.asset_id) = {call.old_content}
               /\ count_history(asset_history, call.asset_id) = 1
        /\ (call.had_row /\ call.old_content = call.content) =>
               /\ call.ok /\ ~call.flag
               /\ count_history(asset_history, call.asset_id) = call.count_before

\* C7: write-before-overwrite.  After save_asset_with_history on an existing
\* row whose stored hash differs from the incoming one, the asset's history
\* holds a snapshot carrying the OLD stored hash and the OLD stored
\* serialized value, and an error return leaves the row holding the old
\* content.
C7_SnapshotOfOld ==
    (/\ call.op = "save_asset_with_history"
     /\ call.had_row
     /\ call.old_content # call.content) =>
        /\ \E e \in HistoryOf(asset_history, call.asset_id) :
               /\ e.content_hash = HashOf(call.old_content)
               /\ e.content_json = value_to_string(call.old_content)
        /\ ~call.ok => Current(call.asset_id, call.old_content)

\* C9: complete trail of superseded states.  After restore_asset_version of an
\* asset to one of its history entries holding another content than the
\* current one, and after a save_asset_with_history carrying another content
\* than the current one, the content that was current when the call began is
\* in the asset's history.
C9_TrailOfSuperseded ==
    /\ (/\ call.op = "restore_asset_version"
        /\ call.had_row
        /\ \E e \in HistoryOf(asset_history, call.asset_id) :
               /\ e.id = call.history_id
               /\ value_from_str(e.content_json) # call.old_content) =>
           call.old_content \in ContentsOf(asset_history, call.asset_id)
    /\ (/\ call.op = "save_asset_with_history"
        /\ call.had_row
        /\ call.old_content # call.content
        /\ call.ok) =>
           call.old_content \in ContentsOf(asset_history, call.asset_id)

\* C10: restore.  For an asset whose current content is v3 and whose history
\* holds entries for two other contents v1 and v2, restore_asset_version to
\* the entry of v1 succeeds, returns v1, leaves v1 stored with the matching
\* hash, and leaves exactly one history entry for v1.
C10_Restore ==
    (/\ call.op = "restore_asset_version"
     /\ call.had_row
     /\ \E e1, e2 \in HistoryOf(asset_history, call.asset_id) :
            /\ e1.id = call.history_id
            /\ e1.content_json # e2.content_json
            /\ value_from_str(e1.content_json) # call.old_content
            /\ value_from_str(e2.content_json) # call.old_content) =>
        \E e1 \in HistoryOf(asset_history, call.asset_id) :
            /\ e1.id = call.history_id
            /\ call.ok
            /\ call.value = value_from_str(e1.content_json)
            /\ Current(call.asset_id, value_from_str(e1.content_json))
            /\ Cardinality({e \in HistoryOf(asset_history, call.asset_id) :
                               e.content_hash = e1.content_hash}) = 1

\* C11: restore_asset_version fails with NotFound when no history entry has
\* the given id and with an error (AppError::Unknown) when the entry belongs
\* to another asset; in both cases neither the assets table nor the ledger
\* is changed.
C11_RestoreRejects ==
    [][(calls' = calls + 1 /\ call'.op = "restore_asset_version") =>
          /\ get_history_entry(asset_history, call'.history_id) = {} =>
                 /\ ~call'.ok /\ call'.err = "NotFound"
                 /\ assets' = assets /\ asset_history' = asset_history
          /\ (\E e \in get_history_entry(asset_history, call'.history_id) :
                  e.asset_id # call'.asset_id) =>
                 /\ ~call'.ok /\ call'.err = "Unknown"
                 /\ assets' = assets /\ asset_history' = asset_history]_vars

\* C11, the case: a restore naming an entry of another asset was refused, the
\* asset of the call having a stored row.
C11_ForeignEntryRefused ==
    /\ call.op = "restore_asset_version"
    /\ call.err = "Unknown"
    /\ call.had_row
    /\ \E e \in asset_history : e.id = call.history_id /\ e.asset_id # call.asset_id

(***************************************************************************)
(* Properties of the two backends side by side (checked under SpecStore).  *)
(***************************************************************************)
\* A load step that directly follows a save of project p on which no
\* environment fault was injected.
LoadAfterSave(p) ==
    /\ last.name = "save" /\ last.arg = p /\ SqlIdle /\ ~last.fault
    /\ last'.name = "load" /\ calls' = calls + 1

\* Result r is a success carrying project P's nodes, edges, assets, viewport
\* and settings.
SameContent(r, P) ==
    /\ r.ok
    /\ r.project.nodes = P.nodes
    /\ r.project.edges = P.edges
    /\ r.project.assets = P.assets
    /\ r.project.viewport = P.viewport
    /\ r.project.settings = P.settings

\* Project P has at least one node, one edge, one asset and a setting.
Populated(P) ==
    /\ P.nodes # {} /\ P.edges # {} /\ P.assets # {}
    /\ P.settings.some /\ P.settings.map # {}

\* C12: round trip.  On both backends, a load that directly follows
\* save(P), for a P with at least one node, one edge, one asset and
\* non-empty settings, returns a project equal to P in nodes, edges, assets,
\* viewport and settings.
C12_RoundTrip ==
    [][\A p \in Projects :
          (LoadAfterSave(p) /\ Populated(ProjectOf(p))) =>
              /\ SameContent(last'.doc, ProjectOf(p))
              /\ SameContent(last'.sql, ProjectOf(p))]_vars

\* The document backend alone does round-trip such a project.
C12_DocumentRoundTrip ==
    [][\A p \in Projects :
          (LoadAfterSave(p) /\ Populated(ProjectOf(p))) =>
              SameContent(last'.doc, ProjectOf(p))]_vars
\* C13: backend equivalence.  When the same init, save and load calls have
\* been applied to a document root and a transactional root that both
\* started without a backing store, every load returns the same result from
\* the two backends: the same version tag, meta, viewport, nodes, edges,
\* assets and settings.
C13_BackendEquivalence ==
    (last.lockstep /\ last.name = "load") => last.doc = last.sql
\* C14: transactional save is all-or-nothing.  When save_project_sqlite has
\* returned an error at any of its steps, or the process died before COMMIT,
\* load_project_sqlite returns what it would have returned before the save
\* began, and that is the project stored before whenever one was stored.
C14_AllOrNothing ==
    (last.name = "save" /\ SqlIdle /\ ~last.sql.ok) =>
        LET r == ResultOf(load_project_sqlite(store, assets))
        IN  /\ r = last.before
            /\ last.stored => r.ok

\* The tables themselves are as they were: a save that failed or died leaves
\* in every table of an existing database the rows it held at BEGIN.
C14_TablesRestored ==
    [][(txn # NoTxn /\ txn' = NoTxn /\ ~last'.sql.ok) =>
          /\ TablesOf(store', assets') = TablesOf(store, assets)
          /\ asset_history' = asset_history]_vars
\* C15: history side effect of the transactional save.  When
\* save_project_sqlite ends without an environment fault, every asset of the
\* saved project whose stored row carried a different content hash has its
\* superseded content recorded as a history entry of that asset.
C15_SaveRecordsHistory ==
    [][(txn # NoTxn /\ txn' = NoTxn /\ ~last'.fault) =>
          \A a \in ProjectOf(sqlArg).assets : \A r \in RowsOf(assets, a.id) :
              r.value_hash # HashOf(a.value) =>
                  \E e \in asset_history' :
                      /\ e.asset_id = a.id
                      /\ e.content_hash = r.value_hash
                      /\ e.content_json = r.value_json]_vars
\* C16: init is idempotent on an existing store.  An init on a root that
\* already holds synnia.json (document backend) or synnia.db (transactional
\* backend) returns exactly what load would return and changes no stored
\* file and no stored row.
C16_InitIsLoad ==
    [][(last'.name = "init" /\ calls' = calls + 1) =>
          /\ fs[file_path] # NoFile =>
                 /\ last'.doc = io_load_project(fs)
                 /\ fs' = fs
          /\ store.file # "absent" =>
                 /\ last'.sql = ResultOf(load_project_sqlite(store, assets))
                 /\ store' = store
                 /\ assets' = assets
                 /\ asset_history' = asset_history]_vars

\* C16: an init with name n has run on roots that both held a project, and
\* the document backend returned the stored project, not a fresh one named n.
C16_InitOnExistingStore ==
    /\ last.name = "init"
    /\ last.stored
    /\ last.doc.ok
    /\ last.doc.project # FreshProject("2.0.0", last.arg)
    /\ \E n \in Names \ {last.arg} : fs[file_path] = to_string_pretty(FreshId(n))
\* Result r is a success carrying a project named n with no nodes, no edges,
\* no assets and the default viewport.
IsFresh(r, n) ==
    /\ r.ok
    /\ r.project.meta.name = n
    /\ r.project.nodes = {} /\ r.project.edges = {} /\ r.project.assets = {}
    /\ r.project.viewport = [x |-> 0, y |-> 0, zoom |-> 1]

\* C17: init persists the fresh project.  After init with name n on roots
\* without a backing store, an immediately following load succeeds on both
\* backends and returns a project named n with no nodes, no edges, no assets
\* and viewport x = 0, y = 0, zoom = 1.
C17_InitThenLoad ==
    [][\A n \in Names :
          (/\ last'.name = "init" /\ last'.arg = n /\ calls' = calls + 1
           /\ fs = [x \in Paths |-> NoFile]
           /\ store.file = "absent") =>
              /\ IsFresh(io_load_project(fs'), n)
              /\ IsFresh(load_project_sqlite(store', assets'), n)]_vars

\* The document backend alone does: load after the first init returns the
\* fresh project.
C17_DocumentInitThenLoad ==
    [][\A n \in Names :
          (/\ last'.name = "init" /\ last'.arg = n /\ calls' = calls + 1
           /\ fs = [x \in Paths |-> NoFile]) =>
              IsFresh(io_load_project(fs'), n)]_vars
\* C18: load without a backing store.  A load on a document root that holds
\* neither synnia.json nor the autosave artifact, and a load on a
\* transactional root without synnia.db, fail with NotFound and create no
\* file.
C18_LoadNotFound ==
    [][(last'.name = "load" /\ calls' = calls + 1) =>
          /\ (fs[file_path] = NoFile /\ fs[autosave_path] = NoFile) =>
                 /\ ~last'.doc.ok /\ last'.doc.err = "NotFound"
                 /\ fs' = fs
          /\ store.file = "absent" =>
                 /\ ~last'.sql.ok /\ last'.sql.err = "NotFound"
                 /\ store' = store]_vars

\* C18: a load has run on two roots without backing store; both calls
\* returned NotFound and the roots are still empty.
C18_LoadedNothing ==
    /\ last.name = "load"
    /\ last.doc.err = "NotFound" /\ last.sql.err = "NotFound"
    /\ fs = [x \in Paths |-> NoFile]
    /\ store = NoDb
(***************************************************************************)
(* Further properties of the document backend (checked under Spec).        *)
(***************************************************************************)
\* C19: referential check on load.  load_project never returns as a success
\* a project in which some node's asset_id names an asset that is not in the
\* project's asset registry.
C19_ReferentialCheck ==
    loaded.ok => DanglingNodes(ProjectOf(loaded.project)) = {}
\* C20: autosave is best-effort.  save_project_autosave never reports an
\* error to its caller: a missing project directory, a serialization failure
\* or a write failure is swallowed.
C20_AutosaveReportsOk ==
    autoResult # "err"
(***************************************************************************)
(* Properties of concurrent calls (checked under SpecConcurrent).          *)
(***************************************************************************)
\* C21: distinct target paths.  While a save_project call is running and a
\* save_project_autosave call is in the middle of writing
\* synnia.json.autosave, no file-system operation of save_project (write,
\* rename, remove) changes the file at that path.
C21_DistinctTargets ==
    [][(savePc # "idle" /\ autoPc = "write" /\ savePc' # savePc) =>
          fs'[autosave_path] = fs[autosave_path]]_vars
(***************************************************************************)
(* Further properties of the history ledger (checked under SpecLedger).    *)
(***************************************************************************)
\* C23: history entries are immutable and are removed by the retention trim
\* only.  In every step, an entry that is still in the ledger carries the
\* asset_id, content_hash, content and creation time it had, and an entry
\* that has left the ledger belonged to the asset a create_snapshot_if_changed
\* call was made for while that asset stood at the cap.
C23_HistoryImmutable ==
    [][/\ \A n \in asset_history' :
              (\E e \in asset_history : e.id = n.id) => n \in asset_history
       /\ \A e \in asset_history \ asset_history' :
              /\ calls' = calls + 1
              /\ call'.op = "create_snapshot_if_changed"
              /\ call'.asset_id = e.asset_id
              /\ count_history(asset_history, e.asset_id) >= MAX_HISTORY_PER_ASSET]_vars

\* C23, the case: a call for an asset at the cap created an entry and the
\* trim removed one of that asset, while the entries of another asset are
\* in the ledger.
C23_TrimBesideOtherAsset ==
    /\ call.op = "create_snapshot_if_changed"
    /\ call.flag
    /\ call.count_before = MAX_HISTORY_PER_ASSET
    /\ count_history(asset_history, call.asset_id) = MAX_HISTORY_PER_ASSET
    /\ \E a \in AssetIds \ {call.asset_id} : HistoryOf(asset_history, a) # {}
\* C25: whenever synnia.json.autosave exists at load time its content is at
\* least as recent as that of synnia.json, so load_project never returns a
\* state older than the last canonical save whose rename completed.  With the
\* calls serialised, an artifact present while save_project is past its
\* rename was written before that save began; so when the call ends past the
\* rename, by returning (the removal done or failed) or by a crash before the
\* removal, load_project on the files it leaves returns the project saved.
C25_LoadNotOlderThanSave ==
    [][(savePc = "cleanup" /\ savePc' = "idle") =>
          /\ load_result(fs').ok
          /\ load_result(fs').project = saveArg]_vars

\* C26: a save_project(P) overlaps a save_project_autosave(Q) of an older
\* in-memory state Q (project numbers count the states of the editor, so Q is
\* older when its number is smaller); once both have returned Ok,
\* load_project returns P, not Q.
C26_SaveNotShadowed ==
    (/\ Idle
     /\ overlap
     /\ saveResult = "ok"
     /\ autoResult = "ok"
     /\ autoArg < saveArg) =>
        /\ load_result(fs).ok
        /\ load_result(fs).project = saveArg

\* C27: full replace with no orphan rows.  After a successful
\* save_project_sqlite(P) on a store with any prior content, the stored
\* nodes, edges, settings and asset ids are exactly those of P; no row of the
\* prior state that is absent from P survives, also when P.assets or
\* P.graph.nodes is empty.
C27_FullReplace ==
    (last.name = "save" /\ SqlIdle /\ last.sql.ok) =>
        /\ store.nodes = ProjectOf(last.arg).nodes
        /\ store.edges = ProjectOf(last.arg).edges
        /\ load_settings(store) = ProjectOf(last.arg).settings
        /\ {r.id : r \in assets} = {a.id : a \in ProjectOf(last.arg).assets}

\* C28: under a single writer the ledger never holds more than
\* MAX_HISTORY_PER_ASSET + 1 = 51 entries for one asset in any state, the
\* state between the insert and the trim of create_snapshot_if_changed and
\* the state a crash between the two statements leaves included.
C28_AtMostCapPlusOne ==
    \A a \in AssetIds :
        count_history(asset_history, a) <= MAX_HISTORY_PER_ASSET + 1

\* C29: every project a load returns as a success has, for each edge, both
\* its source and its target among the ids of the project's nodes, whatever
\* saves preceded the load.
C29_EdgesHaveEndpoints ==
    last.name = "load" =>
        /\ last.doc.ok => DanglingEdges(last.doc.project) = {}
        /\ last.sql.ok => DanglingEdges(last.sql.project) = {}

\* C30: current-project-path lifecycle.  A successful init_project or
\* load_project sets current_project_path to its argument; a successful
\* delete_project or rename_project of the directory of the active project
\* clears it; while it is unset, save_project and every history command fail
\* with ProjectNotLoaded and write nothing; and these commands write only
\* into the directory the path names, so none writes to the old path once
\* the active project is deleted or renamed.
C30_PathLifecycle ==
    [][/\ (cmd'.op \in {"init_project", "load_project"} /\ cmd'.ok) =>
              current_project_path' = cmd'.path
       /\ (/\ cmd'.op \in {"delete_project", "rename_project"}
           /\ cmd'.ok
           /\ cmd'.path.dir = current_project_path.dir) =>
              current_project_path' = NoPath
       /\ (cmd'.op \in {"save_project"} \cup HistoryCommands) =>
              /\ current_project_path = NoPath =>
                     /\ ~cmd'.ok
                     /\ cmd'.err = "ProjectNotLoaded"
                     /\ dirs' = dirs
              /\ cmd'.wrote # 0 =>
                     /\ current_project_path # NoPath
                     /\ cmd'.wrote = current_project_path.dir]_vars

\* The lifecycle as the code has it: the path is cleared when the command's
\* argument is spelled as the stored path, and kept under any other spelling.
C30_ClearedOnEqualSpelling ==
    [][(cmd'.op \in {"delete_project", "rename_project"} /\ cmd'.ok) =>
          current_project_path' =
              IF cmd'.path = current_project_path THEN NoPath
              ELSE current_project_path]_vars

(***************************************************************************)
(* Properties of the history listing (checked under SpecListing).          *)
(***************************************************************************)
\* The limit a listing works with: the one given, or 50.
EffectiveLimit(limit) == IF limit.some THEN limit.n ELSE 50

\* The last call was a listing, and its result holds only entries of the
\* asset asked for, each once, newest first by creation time.
ListedNewestFirst ==
    /\ \A i \in 1..Len(call.listed) :
           /\ call.listed[i] \in HistoryOf(asset_history, call.asset_id)
           /\ \A j \in 1..Len(call.listed) :
                  /\ i < j => call.listed[i].created_at >= call.listed[j].created_at
                  /\ i # j => call.listed[i] # call.listed[j]
    /\ \A e \in HistoryOf(asset_history, call.asset_id) :
           (\E i \in 1..Len(call.listed) :
                 call.listed[i].created_at < e.created_at) =>
               \E j \in 1..Len(call.listed) : call.listed[j] = e

\* C24 as stated: get_asset_history(asset_id, limit) returns only entries of
\* that asset, newest first by creation time, at most `limit` of them (50
\* when no limit is given), and all of them when the asset has at most
\* `limit` entries.
C24_ListingAsStated ==
    call.op = "get_asset_history" =>
        /\ ListedNewestFirst
        /\ Len(call.listed) <= EffectiveLimit(call.limit)
        /\ count_history(asset_history, call.asset_id) <= EffectiveLimit(call.limit) =>
               Len(call.listed) = count_history(asset_history, call.asset_id)

\* C24, amended: for a limit of zero or more (50 when none is given) the
\* listing returns only entries of that asset, newest first by creation
\* time, at most `limit` of them, and all of them when the asset has at most
\* `limit` entries; for a negative limit it returns all entries of the asset,
\* newest first.
C24_Listing ==
    call.op = "get_asset_history" =>
        /\ ListedNewestFirst
        /\ EffectiveLimit(call.limit) >= 0 =>
               /\ Len(call.listed) <= EffectiveLimit(call.limit)
               /\ count_history(asset_history, call.asset_id)
                       <= EffectiveLimit(call.limit) =>
                      Len(call.listed) = count_history(asset_history, call.asset_id)
        /\ EffectiveLimit(call.limit) < 0 =>
               Len(call.listed) = count_history(asset_history, call.asset_id)

\* C24, the case: a listing with a limit below the number of entries of the
\* asset returned exactly `limit` entries, the newest ones.
C24_ListingCutAtLimit ==
    /\ call.op = "get_asset_history"
    /\ call.limit.some
    /\ call.limit.n >= 2
    /\ count_history(asset_history, call.asset_id) > call.limit.n
    /\ Len(call.listed) = call.limit.n
    /\ call.listed[1].created_at > call.listed[2].created_at
(***************************************************************************)
(* Properties of the project commands on a document root (SpecReset).      *)
(***************************************************************************)
\* C31: reset_project clears the graph.  After reset_project succeeds on a
\* loaded project, the project it returns and the project stored in
\* synnia.json have no nodes and no edges.
C31_ResetClearsGraph ==
    (last.name = "reset" /\ last.doc.ok) =>
        /\ last.doc.project.nodes = {}
        /\ last.doc.project.edges = {}
        /\ fs[file_path] # NoFile
        /\ ProjectOf(fs[file_path].doc).nodes = {}
        /\ ProjectOf(fs[file_path].doc).edges = {}
\* C35: restore_asset_version returns success only if the asset's stored
\* content afterwards equals the content of the restored entry; when the
\* history entry exists but the asset has no row, it reports an error.
C35_RestoreSuccessMeansRestored ==
    [][(calls' = calls + 1 /\ call'.op = "restore_asset_version") =>
          /\ call'.ok =>
                 \E e \in get_history_entry(asset_history, call'.history_id) :
                     \E r \in RowsOf(assets', call'.asset_id) :
                         /\ r.value_json = e.content_json
                         /\ r.value_hash = e.content_hash
          /\ (/\ \E e \in get_history_entry(asset_history, call'.history_id) :
                     e.asset_id = call'.asset_id
              /\ RowsOf(assets, call'.asset_id) = {}) =>
                 ~call'.ok]_vars

\* C35, the case: a restore named an entry of its own asset while the asset
\* had no row, and returned an error.
C35_RestoreWithoutRow ==
    /\ call.op = "restore_asset_version"
    /\ ~call.had_row
    /\ \E e \in get_history_entry(asset_history, call.history_id) :
           e.asset_id = call.asset_id
    /\ ~call.ok
    /\ call.err = "Failed to restore asset"

\* C36: the get_asset_history command called with a limit L >= 1 returns at
\* most L entries in total, the current-version entry (id 0) counted; called
\* with no limit it returns the current version followed by at most 50
\* snapshots, newest first.
C36_CommandLimit ==
    (call.op = "get_asset_history_command" /\ call.ok) =>
        /\ (call.limit.some /\ call.limit.n >= 1) => Len(call.listed) <= call.limit.n
        /\ ~call.limit.some =>
              /\ Len(call.listed) <= MAX_HISTORY_PER_ASSET + 1
              /\ \A i \in 1..Len(call.listed) : call.listed[i].id = 0 => i = 1
              /\ \A i, j \in 1..Len(call.listed) :
                    (i < j /\ call.listed[i].id # 0) =>
                        call.listed[i].created_at >= call.listed[j].created_at

\* C37: an id the get_asset_history command has just returned, passed to
\* get_history_content before any write, yields the content of that entry
\* and not NotFound.
C37_ListedIdsReadable ==
    [][(/\ call.op = "get_asset_history_command" /\ call.ok
        /\ calls' = calls + 1
        /\ call'.op = "get_history_content"
        /\ \E i \in 1..Len(call.listed) : call.listed[i].id = call'.history_id) =>
          /\ call'.ok
          /\ \A i \in 1..Len(call.listed) :
                call.listed[i].id = call'.history_id =>
                    HashOf(call'.value) = call.listed[i].content_hash]_vars

\* C39: two save_asset_with_history calls on the same existing asset with
\* different new contents X and Y lose no content: once both have returned,
\* the content current before them and the one of X and Y written first are
\* in the asset's history, and the current row holds the other with its
\* hash.  (Each call runs one statement against the database before it
\* returns, so two concurrent calls act as the two calls one after the other.)
C39_NoContentLost ==
    [][(/\ call.op = "save_asset_with_history"
        /\ call'.op = "save_asset_with_history"
        /\ calls' = calls + 1
        /\ call'.asset_id = call.asset_id
        /\ call.had_row
        /\ call.content # call'.content
        /\ call.old_content \notin {call.content, call'.content}) =>
          LET a == call.asset_id
              X == call.content
              Y == call'.content
              Holds(v) == \E r \in RowsOf(assets', a) :
                              /\ r.value_json = value_to_string(v)
                              /\ r.value_hash = HashOf(v)
          IN  /\ call.old_content \in ContentsOf(asset_history', a)
              /\ \/ X \in ContentsOf(asset_history', a) /\ Holds(Y)
                 \/ Y \in ContentsOf(asset_history', a) /\ Holds(X)]_vars

\* C34: the document-backend init_project never destroys recoverable state.
\* When synnia.json.autosave exists at the root and synnia.json does not,
\* init_project neither deletes the autosave artifact nor replaces its
\* content.
C34_InitKeepsAutosave ==
    [][(/\ last'.name = "init"
        /\ fs[autosave_path] # NoFile
        /\ fs[file_path] = NoFile) =>
          fs'[autosave_path] = fs[autosave_path]]_vars

(***************************************************************************)
(* Properties of the command layer (SpecCommands) and of the recent list   *)
(* (SpecRecent).                                                           *)
(***************************************************************************)
\* C32: the safety guard of delete_project.  delete_project on a directory
\* that does not contain synnia.json returns an error and changes nothing:
\* no file is removed, current_project_path and the recent-projects list
\* are as before.
C32_DeleteGuard ==
    [][(cmd'.op = "delete_project" /\ ~dirs[cmd'.path.dir].json) =>
          /\ ~cmd'.ok
          /\ dirs' = dirs
          /\ current_project_path' = current_project_path
          /\ recent_projects' = recent_projects]_vars

\* C32, the case: delete_project was refused on an existing directory
\* without synnia.json while a project was open and listed as recent.
C32_GuardRefused ==
    /\ cmd.op = "delete_project"
    /\ ~cmd.ok
    /\ cmd.err = "Unknown"
    /\ dirs[cmd.path.dir].exists
    /\ ~dirs[cmd.path.dir].json
    /\ current_project_path # NoPath
    /\ \E i \in 1..Len(recent_projects) : recent_projects[i] = current_project_path

\* C33: after any sequence of add_recent calls recent_projects holds no two
\* entries with the same path and at most 10 entries, and its first entry
\* is the project added last.
C33_RecentList ==
    /\ \A i, j \in 1..Len(recent_projects) :
           i # j => recent_projects[i] # recent_projects[j]
    /\ Len(recent_projects) <= MAX_RECENT
    /\ cmd.op = "add_recent" =>
           /\ Len(recent_projects) >= 1
           /\ recent_projects[1] = cmd.path

\* C33, the case: two new paths were added one after the other to a list of
\* at least nine entries, so the list was cut to ten.
C33_CutAndMovedToFront ==
    /\ cmd.op = "add_recent"
    /\ Len(recent_projects) = MAX_RECENT
    /\ cmd.path = RecentPath(MAX_RECENT + 1)
    /\ recent_projects[2] = RecentPath(MAX_RECENT + 2)

\* C38: state is unchanged on error in the project commands.  When the
\* load_project, init_project or delete_project command returns an error,
\* current_project_path has the value it had before the call.
C38_PathUnchangedOnError ==
    [][(cmd'.op \in {"load_project", "init_project", "delete_project"} /\ ~cmd'.ok) =>
          current_project_path' = current_project_path]_vars
====
